---- MODULE Spec2Model ----
(***************************************************************************)
(* Model of the service health and API-detection engine of the HomeLab     *)
(* dashboard: the liveness classifier and health prober of                 *)
(* dashboard/models.py, the API endpoint scanner of                        *)
(* dashboard/utils/api_detector.py and the detection scheduler of          *)
(* dashboard/utils/traefik_service.py, for one monitored target.           *)
(*                                                                         *)
(* Time is counted in minutes.  An optional value (a nullable column) is   *)
(* a sequence: <<>> is None and <<v>> holds v.  Python strings are TLA+    *)
(* strings and the string methods used by the code are operators on them.  *)
(***************************************************************************)
EXTENDS Integers, Sequences, FiniteSets, TLC

VARIABLES
    clock,      \* the wall clock read by timezone.now(), in minutes
    ticks,      \* how many times the clock has advanced (bounded)
    svc,        \* the stored Service row of the target
    probe,      \* the last check_health call: requests sent, outcomes, result
    cls,        \* the classifier's input and output
    scan,       \* one probe_api_endpoints call: base URL, environment, result
    present,    \* whether the row of the target exists
    sync,       \* the last sync_traefik_services cycle: its decision and result
    detect,     \* the last detect_service_api call: its outcome
    client,     \* one GenericAPIClient object and the calls made on it
    field,      \* one value of an encrypted column: in Python, in the database
    traefik,    \* the TRAEFIK_API_URL setting and the last refresh_services call
    race,       \* the threads running check_health at the same time on the target
    cycle       \* one loop over the targets: position, targets done and failed

vars == <<clock, ticks, svc, probe, cls, scan, present, sync,
         detect, client, field, traefik, race, cycle>>

(***************************************************************************)
(* Bounds of the model.                                                    *)
(***************************************************************************)
MaxTicks == 4
MaxAttempts == 6
MinCode == 100
MaxCode == 599
MaxLogins == 1
MaxCycles == 2
MaxRefreshes == 2
MaxRaceOps == 2
MaxLoops == 2
MaxOverlaps == 1
MaxProbeTicks == 2
MaxOperations == 2
MaxRefreshTicks == 1

(***************************************************************************)
(* Optional values and Python string methods.                              *)
(***************************************************************************)
None == <<>>
Some(v) == <<v>>

\* str.startswith(prefix)
StartsWith(s, p) == Len(s) >= Len(p) /\ SubSeq(s, 1, Len(p)) = p

\* needle in s
Contains(s, n) ==
    \E i \in 1..(Len(s) - Len(n) + 1) : SubSeq(s, i, i + Len(n) - 1) = n

\* index of the first occurrence of n in s (0 when there is none)
FindFirst(s, n) ==
    IF Contains(s, n)
    THEN CHOOSE i \in 1..(Len(s) - Len(n) + 1) :
            /\ SubSeq(s, i, i + Len(n) - 1) = n
            /\ \A j \in 1..(i - 1) : SubSeq(s, j, j + Len(n) - 1) # n
    ELSE 0

\* s.replace(old, new, 1)
ReplaceFirst(s, old, new) ==
    LET i == FindFirst(s, old) IN
    IF i = 0 THEN s
    ELSE SubSeq(s, 1, i - 1) \o new \o SubSeq(s, i + Len(old), Len(s))

(***************************************************************************)
(* 4.1 Liveness classifier: Service.check_health.is_service_up             *)
(***************************************************************************)
\* variant: 405 is not counted as up
is_service_up_no_405(status_code) ==
    IF 200 <= status_code /\ status_code < 300 THEN TRUE
    ELSE IF 300 <= status_code /\ status_code < 400 THEN TRUE
    ELSE IF status_code = 401 THEN TRUE
    ELSE IF status_code = 403 THEN TRUE
    ELSE FALSE

is_service_up(status_code) ==
    IF 200 <= status_code /\ status_code < 300 THEN TRUE
    ELSE IF 300 <= status_code /\ status_code < 400 THEN TRUE
    ELSE IF status_code = 401 THEN TRUE
    ELSE IF status_code = 403 THEN TRUE
    ELSE IF status_code = 405 THEN TRUE
    ELSE FALSE

(***************************************************************************)
(* Outcomes of one requests.get call: a response with a status code, or    *)
(* an exception.  The exception classes are those of the requests library  *)
(* that the handlers of check_health name; ConnectTimeout is both a        *)
(* Timeout and a ConnectionError, SSLError is a ConnectionError.           *)
(***************************************************************************)
ExceptionKinds ==
    {"SSLError", "ConnectTimeout", "ReadTimeout", "ConnectionError",
     "TooManyRedirects", "ValueError"}

IsSSLError(kind) == kind = "SSLError"
IsTimeout(kind) == kind \in {"ConnectTimeout", "ReadTimeout"}
IsConnectionError(kind) == kind \in {"ConnectionError", "SSLError", "ConnectTimeout"}
IsRequestException(kind) ==
    kind \in {"SSLError", "ConnectTimeout", "ReadTimeout", "ConnectionError",
              "TooManyRedirects"}

\* status codes a probed target answers with
ProbeCodes == {200, 302, 401, 404, 503}

Response(code) == [kind |-> "response", status |-> code]
Raised(kind) == [kind |-> kind, status |-> 0]

ProbeOutcomes ==
    {Response(c) : c \in ProbeCodes} \cup {Raised(k) : k \in ExceptionKinds}

\* elapsed times of the request that completes, in milliseconds (at most one
\* request of a probe completes), int(total_seconds() * 1000)
ElapsedMs == {0, 120}

\* URLs a stored target can hold: create_service, update_service and the
\* Traefik rule parser all produce a lower-case http:// or https:// prefix
Urls == {"https://svc.lan", "http://svc.lan", "http://svc.lan/go/https://x"}

(***************************************************************************)
(* 4.2 Health prober: Service.check_health                                 *)
(***************************************************************************)
\* the timeout of every requests.get of check_health, in seconds
ProbeTimeout == 5

Get(url, verify) == [url |-> url, verify |-> verify, timeout |-> ProbeTimeout]

\* variant: the ConnectionError clause placed before the Timeout clause
HandlerConnectionFirst(kind) ==
    IF IsSSLError(kind) THEN "SSLError"
    ELSE IF IsConnectionError(kind) THEN "ConnectionError"
    ELSE IF IsTimeout(kind) THEN "Timeout"
    ELSE "Exception"

\* the except clause of the outer try that handles an exception, by the
\* order of the clauses: SSLError, Timeout, ConnectionError, Exception
Handler(kind) ==
    IF IsSSLError(kind) THEN "SSLError"
    ELSE IF IsTimeout(kind) THEN "Timeout"
    ELSE IF IsConnectionError(kind) THEN "ConnectionError"
    ELSE "Exception"

\* a completed request: response_time is set, the status code is classified
Classified(s, o, ms) ==
    [s EXCEPT !.response_time = Some(ms),
              !.status = IF is_service_up(o.status) THEN "up" ELSE "down"]

\* variant: a failure that keeps the response time of the previous probe
FailedKeepsTime(s) == [s EXCEPT !.status = "down"]

\* a request that raised: down, no response time
Failed(s) == [s EXCEPT !.status = "down", !.response_time = None]

\* variant: the retry keeps certificate verification on
SslRetryVerifies(s, o2, ms2) ==
    IF o2.kind = "response"
    THEN [obj |-> Classified(s, o2, ms2), requests |-> <<Get(s.url, TRUE)>>]
    ELSE [obj |-> Failed(s), requests |-> <<Get(s.url, TRUE)>>]

\* variant: a retry that raises is followed by a GET over http://
SslRetryThenPlaintext(s, o2, ms2) ==
    IF o2.kind = "response"
    THEN [obj |-> Classified(s, o2, ms2), requests |-> <<Get(s.url, FALSE)>>]
    ELSE [obj |-> Failed(s),
          requests |-> <<Get(s.url, FALSE),
                         Get(ReplaceFirst(s.url, "https://", "http://"), FALSE)>>]

\* except SSLError: one retry to the same URL with verify=False
SslRetry(s, o2, ms2) ==
    IF o2.kind = "response"
    THEN [obj |-> Classified(s, o2, ms2), requests |-> <<Get(s.url, FALSE)>>]
    ELSE [obj |-> Failed(s), requests |-> <<Get(s.url, FALSE)>>]

\* variant: the URL is rewritten whatever the plaintext retry answers
FallbackResponseAlwaysRewrites(s, http_url, o2, ms2) ==
    IF is_service_up(o2.status)
    THEN [s EXCEPT !.response_time = Some(ms2), !.status = "up", !.url = http_url]
    ELSE [s EXCEPT !.response_time = None, !.status = "down", !.url = http_url]

\* the plaintext retry moves the target to the http URL when it is up
FallbackResponse(s, http_url, o2, ms2) ==
    IF is_service_up(o2.status)
    THEN [s EXCEPT !.response_time = Some(ms2), !.status = "up", !.url = http_url]
    ELSE [s EXCEPT !.response_time = None, !.status = "down"]

\* except ConnectionError: for an https:// URL one retry over http://
HttpFallback(s, o2, ms2) ==
    IF StartsWith(s.url, "https://")
    THEN LET http_url == ReplaceFirst(s.url, "https://", "http://") IN
         IF o2.kind = "response"
         THEN [obj |-> FallbackResponse(s, http_url, o2, ms2),
               requests |-> <<Get(http_url, FALSE)>>]
         ELSE [obj |-> Failed(s), requests |-> <<Get(http_url, FALSE)>>]
    ELSE [obj |-> Failed(s), requests |-> <<>>]

\* the try statement of check_health: the object after it and the requests
\* sent, for the outcome o1 of the primary GET and o2 of a retry
Attempt(s, o1, ms1, o2, ms2) ==
    LET primary == <<Get(s.url, TRUE)>> IN
    IF o1.kind = "response"
    THEN [obj |-> Classified(s, o1, ms1), requests |-> primary]
    ELSE LET h == Handler(o1.kind)
             r == IF h = "SSLError" THEN SslRetry(s, o2, ms2)
                  ELSE IF h = "ConnectionError" THEN HttpFallback(s, o2, ms2)
                  ELSE [obj |-> Failed(s), requests |-> <<>>]
         IN [obj |-> r.obj, requests |-> primary \o r.requests]

\* variant: status_changed_at is written by every probe
TrackAlways(old_status, s, now) == [s EXCEPT !.status_changed_at = Some(now)]

\* "Track status changes": status_changed_at moves only on a new verdict
Track(old_status, s, now) ==
    IF old_status # s.status
    THEN [s EXCEPT !.status_changed_at = Some(now)]
    ELSE s

\* variant: the end of check_health without the write of last_checked
FinishKeepLastChecked(old_status, s, now) == Track(old_status, s, now)

\* the end of check_health: status change tracking, last_checked, save

Finish(old_status, s, now) ==
    [Track(old_status, s, now) EXCEPT !.last_checked = Some(now)]

\* check_health as a whole: the saved object, the requests and the return value
check_health(s, o1, ms1, o2, ms2, now) ==
    LET a == Attempt(s, o1, ms1, o2, ms2)
        saved == Finish(s.status, a.obj, now)
    IN [obj |-> saved, requests |-> a.requests, ret |-> saved.status]

(***************************************************************************)
(* 4.3 API endpoint scanner: APIDetector.probe_api_endpoints               *)
(***************************************************************************)
COMMON_ENDPOINTS ==
    <<"/api", "/api/v1", "/api/v2", "/api/v3", "/api/v1/system/status",
      "/api/v2/app/version", "/api/v2/auth/login", "/api/v3/system/status",
      "/api/system/status", "/api/version", "/api/status", "/api/health",
      "/health", "/healthz", "/System/Info/Public", "/identity",
      "/docs", "/swagger", "/api-docs">>

Candidates == 1..Len(COMMON_ENDPOINTS)

\* s.rstrip('/')
RECURSIVE RStripSlash(_)
RStripSlash(s) ==
    IF Len(s) > 0 /\ SubSeq(s, Len(s), Len(s)) = "/"
    THEN RStripSlash(SubSeq(s, 1, Len(s) - 1))
    ELSE s

\* a response to a scanner GET: status code and Content-Type header ("" when
\* the header is missing)
ScanResponse(code, ct) == [kind |-> "response", status |-> code, content_type |-> ct]
ScanRaised(kind) == [kind |-> kind, status |-> 0, content_type |-> ""]

\* variant: a 401 is accepted only with a JSON content type
TryEndpointJsonOnly(endpoint, o) ==
    IF o.kind = "response"
    THEN IF o.status \in {200, 401, 403}
         THEN IF Contains(o.content_type, "application/json")
              THEN "accept"
              ELSE IF endpoint \in {"/docs", "/swagger", "/api-docs"}
                      /\ Contains(o.content_type, "text/html")
                   THEN "accept"
                   ELSE "continue"
         ELSE "continue"
    ELSE IF IsTimeout(o.kind) \/ IsConnectionError(o.kind) \/ IsRequestException(o.kind)
         THEN "continue"
         ELSE "raise"

\* the body of the loop for one candidate and the outcome o of its GET:
\* return at once ("accept"), go on ("continue") or let the exception out
TryEndpoint(endpoint, o) ==
    IF o.kind = "response"
    THEN IF o.status \in {200, 401, 403}
         THEN IF Contains(o.content_type, "application/json") \/ o.status = 401
              THEN "accept"
              ELSE IF endpoint \in {"/docs", "/swagger", "/api-docs"}
                      /\ Contains(o.content_type, "text/html")
                   THEN "accept"
                   ELSE "continue"
         ELSE "continue"
    ELSE IF IsTimeout(o.kind) \/ IsConnectionError(o.kind) \/ IsRequestException(o.kind)
         THEN "continue"
         ELSE "raise"

\* session.get(url, timeout=timeout, allow_redirects=False) with the
\* default timeout of probe_api_endpoints, which detect_api leaves as it is
ScanTimeout == 3
ScanGet(url) == [url |-> url, timeout |-> ScanTimeout, allow_redirects |-> FALSE]

ScanResult(found, endpoint, requests, raised) ==
    [found |-> found, endpoint |-> endpoint, requests |-> requests, raised |-> raised]

\* variant: an exception of a candidate ends the scan as "not found"
RECURSIVE ScanFromStopOnError(_, _, _, _)
ScanFromStopOnError(base_url, env, i, requests) ==
    IF i > Len(COMMON_ENDPOINTS)
    THEN ScanResult(FALSE, None, requests, FALSE)
    ELSE LET endpoint == COMMON_ENDPOINTS[i]
             sent == Append(requests, ScanGet(RStripSlash(base_url) \o endpoint))
             step == TryEndpoint(endpoint, env[i])
         IN IF step = "accept" THEN ScanResult(TRUE, Some(endpoint), sent, FALSE)
            ELSE IF step = "raise" THEN ScanResult(FALSE, None, sent, TRUE)
            ELSE IF env[i].kind # "response" THEN ScanResult(FALSE, None, sent, FALSE)
            ELSE ScanFromStopOnError(base_url, env, i + 1, sent)

\* the for loop from candidate i on; env[i] is the outcome of the GET of
\* candidate i and requests are the GETs sent so far
RECURSIVE ScanFrom(_, _, _, _)
ScanFrom(base_url, env, i, requests) ==
    IF i > Len(COMMON_ENDPOINTS)
    THEN ScanResult(FALSE, None, requests, FALSE)
    ELSE LET endpoint == COMMON_ENDPOINTS[i]
             sent == Append(requests, ScanGet(RStripSlash(base_url) \o endpoint))
             step == TryEndpoint(endpoint, env[i])
         IN IF step = "accept" THEN ScanResult(TRUE, Some(endpoint), sent, FALSE)
            ELSE IF step = "raise" THEN ScanResult(FALSE, None, sent, TRUE)
            ELSE ScanFrom(base_url, env, i + 1, sent)

probe_api_endpoints(base_url, env) == ScanFrom(base_url, env, 1, <<>>)

\* status codes and Content-Type headers a scanned target answers with
ScanCodes == {200, 204, 301, 401, 403, 404, 500}
ContentTypes ==
    {"", "application/json", "application/json; charset=utf-8",
     "text/html; charset=utf-8", "text/plain"}

ScanOutcomes ==
    {ScanResponse(c, ct) : c \in ScanCodes, ct \in ContentTypes}
        \cup {ScanRaised(k) : k \in ExceptionKinds}

\* what the candidates other than the one under study answer
ScanFillers ==
    {ScanResponse(404, "text/html; charset=utf-8"),
     ScanResponse(200, "text/html; charset=utf-8"),
     ScanResponse(200, "application/json"),
     ScanRaised("ReadTimeout"), ScanRaised("ConnectionError"),
     ScanRaised("TooManyRedirects")}

\* environments of a scan: candidate k answers o, the candidates before it
\* answer b and those after it answer a
ScanEnv(k, o, b, a) ==
    [i \in Candidates |-> IF i = k THEN o ELSE IF i < k THEN b ELSE a]

ScanEnvs ==
    {ScanEnv(k, o, b, a) : k \in Candidates, o \in ScanOutcomes,
                           b \in ScanFillers, a \in ScanFillers}

ScanBases == {"http://svc.lan", "https://svc.lan/"}

(***************************************************************************)
(* The stored row of the target.                                           *)
(***************************************************************************)
\* a row as Service.objects.create leaves it: the column defaults
NewService(url, status) ==
    [url |-> url, status |-> status, is_manual |-> FALSE,
     response_time |-> None, last_checked |-> None, status_changed_at |-> None,
     api_url |-> "", api_key |-> "", api_username |-> "", api_password |-> "",
     api_type |-> "", api_detected |-> FALSE, api_endpoint |-> "",
     api_last_detected |-> None, api_detection_attempts |-> 0,
     api_next_check |-> None]

\* no check_health call has ended yet; of the last call that ended: the
\* caller, the instance it had loaded, the requests, the instance it saved
NoProbe == [called |-> FALSE, via |-> "none", start_url |-> "", old_status |-> "",
            now |-> 0, requests |-> <<>>, outcomes |-> <<>>, ret |-> "",
            loaded |-> NewService("", "unknown"),
            saved |-> NewService("", "unknown")]

NoClassification == [code |-> 0, verdict |-> "unset"]

NoScan == [base_url |-> "", env |-> <<>>, done |-> FALSE,
           result |-> ScanResult(FALSE, None, <<>>, FALSE)]

\* a cycle: whether it was forced, its should_detect, what it did about
\* detection, its return value
\* and, of the target, the row the cycle read (existing says whether there
\* was one), the row in the store before update_or_create and the row after
NoSync == [force |-> FALSE, should_detect |-> FALSE,
           outcome |-> "none", ret |-> 0, now |-> 0, existing |-> FALSE,
           read |-> NewService("", "unknown"),
           before |-> NewService("", "unknown"),
           stored |-> NewService("", "unknown")]

\* a detect_service_api call: "configured", "found", "notfound" or "raised"
\* and the instance the view had loaded and the one it left (saved when the
\* outcome is "found" or "notfound")
NoDetect == [outcome |-> "none", now |-> 0,
             loaded |-> NewService("", "unknown"),
             saved |-> NewService("", "unknown")]

\* no encrypted attribute in play
NoField == [class |-> "none", original |-> None, value |-> None,
            column |-> None, at |-> "none", cycles |-> 0]

\* no service discovered
NoData == [status |-> "unknown", url |-> ""]

\* the reply refresh_services has not given yet
NoRefreshReply ==
    [status |-> 0, success |-> FALSE, synced_services |-> 0, health_checks |-> 0,
     traefik_configured |-> FALSE, traefik_available |-> FALSE]

\* a call of sync_traefik_services or refresh_services that has not begun.
\* Of a call: which function (op), where it is (pc: "scanning", in the loop
\* of sync_traefik_services between the read of the row and
\* update_or_create; "probing", in the loop of health checks, waiting for a
\* GET; "done", it has returned), its force flag, the store when it began,
\* the requests it sent to Traefik and which were answered, the verdicts of
\* refresh_services on Traefik, what the sync loop read and decided, the
\* value sync_traefik_services returned, the rows it wrote, the instances
\* the health loop loaded, how many of them it has probed (pos), of the
\* latest probe the instance saved, the requests and the time, and the
\* reply of refresh_services
NoTraefikCall ==
    [op |-> "none", pc |-> "idle", force |-> FALSE, before |-> <<>>,
     gets |-> <<>>, answered |-> <<>>, configured |-> FALSE, available |-> FALSE,
     existing |-> FALSE, obj |-> NewService("", "unknown"),
     should_detect |-> FALSE, data |-> NoData,
     ret |-> 0, wrote |-> <<>>, rows |-> <<>>, pos |-> 0,
     saved |-> NewService("", "unknown"), requests |-> <<>>, at |-> 0,
     reply |-> NoRefreshReply]

\* the calls a behaviour can make
CallSlots == 1..MaxRefreshes

\* no Traefik operation yet: the setting unset, the row added by hand, no
\* call begun
NoTraefik ==
    [api_url |-> None,
     manual |-> [NewService("http://nas.lan", "unknown") EXCEPT !.is_manual = TRUE],
     calls |-> 0, last |-> 0, run |-> [k \in CallSlots |-> NoTraefikCall]]

\* threads that can be inside an operation on the target at the same time:
\* the daemon thread a dashboard page load starts, the thread of
\* periodic_sync, the request threads of the views
Threads == {"t1", "t2"}

\* the callers of check_health that load the row for it
ProbeCallers == {"dashboard", "refresh_services", "check_service_health"}

\* a thread that is in no operation.  Of a thread inside one: where it is
\* ("probing": in check_health, waiting for a GET; "syncing": in the loop of
\* sync_traefik_services, between the read of the row and update_or_create;
\* "detecting": in detect_service_api, waiting for the scan), the function
\* that brought it there, the model instance it holds, and for a sync cycle
\* whether it found a row, its force flag, its should_detect and the data
\* Traefik gave it
NoThread ==
    [pc |-> "idle", via |-> "none", obj |-> NewService("", "unknown"),
     existing |-> FALSE, force |-> FALSE, should_detect |-> FALSE,
     data |-> NoData]

\* no thread is inside an operation, nothing has been written.  ops and
\* overlaps count the operations begun and those begun while another one
\* was going on; last, by and before tell the last step, its thread and the
\* stored row before it; reply is the HTTP status of the last view that
\* answered
NoRace ==
    [threads |-> [t \in Threads |-> NoThread],
     ops |-> 0, overlaps |-> 0, last |-> "none", by |-> "none",
     before |-> NewService("", "unknown"), reply |-> 0]

\* the targets a loop goes through: the rows of Service.objects.all(), or
\* the services discovered by a sync cycle, in order
Targets == <<"nas", "svc", "wiki">>

\* the loops over the targets that make a cycle
Loops == {"check_all_services_health", "refresh_services", "sync_traefik_services"}

\* the loop of the admin action "Check health status" over the rows selected
AdminLoop == "ServiceAdmin.check_health"

\* the callers of sync_traefik_services
SyncCallers == {"periodic_sync", "refresh_services", "sync_services"}

\* the loops a behaviour can start
LoopSlots == 1..MaxLoops

\* a loop that has not begun.  Of a loop: which one, its caller, whether it
\* is running, whether an exception ended the call, how many targets it has
\* gone through, those it handled and those that raised, and its count
NoLoop ==
    [loop |-> "none", via |-> "none", running |-> FALSE, aborted |-> FALSE,
     pos |-> 0, done |-> {}, failed |-> {}, count |-> 0]

\* no loop has run; the thread of periodic_sync is alive and has made no
\* call
NoCycle ==
    [runs |-> [k \in LoopSlots |-> NoLoop], loops |-> 0, ticks |-> 0,
     alive |-> TRUE]

(***************************************************************************)
(* APIDetector.detect_api with labels=None                                 *)
(***************************************************************************)
\* the name Traefik reports for the target, and
\* service_name.lower().replace(' ', '') of it
ServiceName == "Svc Lan"
ServiceNameLower == "svclan"

\* the detected type when no label names one: the lowered service name if
\* it is longer than 2 characters, else 'custom'
DetectedType == IF Len(ServiceNameLower) > 2 THEN ServiceNameLower ELSE "custom"

\* outcome "found", "notfound" or "raised", with the type and endpoint
detect_api(service_url, env) ==
    LET r == probe_api_endpoints(service_url, env) IN
    IF r.raised THEN [outcome |-> "raised", api_type |-> "", api_endpoint |-> ""]
    ELSE IF r.found
         THEN [outcome |-> "found", api_type |-> DetectedType,
               api_endpoint |-> r.endpoint[1]]
         ELSE [outcome |-> "notfound", api_type |-> "", api_endpoint |-> ""]

(***************************************************************************)
(* 4.6 Detection scheduler: sync_traefik_services                          *)
(***************************************************************************)
ThrottleAttempts == 5
ThrottleMinutes == 5
RedetectDays == 7
MinutesPerDay == 1440

\* timedelta.days of a difference of two times
Days(minutes) == minutes \div MinutesPerDay

\* variant: the throttle is applied to a forced cycle too
ShouldDetectThrottlesForced(existing, e, force, now) ==
    LET first == force \/ ~existing \/ ~e.api_detected
        throttled ==
            IF existing /\ e.api_detection_attempts >= ThrottleAttempts
            THEN IF e.api_next_check # None /\ now < e.api_next_check[1]
                 THEN FALSE
                 ELSE first
            ELSE first
    IN IF existing /\ e.api_last_detected # None
       THEN IF Days(now - e.api_last_detected[1]) > RedetectDays THEN TRUE ELSE throttled
       ELSE throttled

\* variant: next_check is not consulted, a throttled target is scanned
ShouldDetectWithoutThrottle(existing, e, force, now) ==
    LET first == force \/ ~existing \/ ~e.api_detected
    IN IF existing /\ e.api_last_detected # None
       THEN IF Days(now - e.api_last_detected[1]) > RedetectDays THEN TRUE ELSE first
       ELSE first

\* variant: a detected API does not make the first assignment false
ShouldDetectIgnoresDetected(existing, e, force, now) ==
    LET first == TRUE
        throttled ==
            IF existing /\ e.api_detection_attempts >= ThrottleAttempts /\ ~force
            THEN IF e.api_next_check # None /\ now < e.api_next_check[1]
                 THEN FALSE
                 ELSE first
            ELSE first
    IN IF existing /\ e.api_last_detected # None
       THEN IF Days(now - e.api_last_detected[1]) > RedetectDays THEN TRUE ELSE throttled
       ELSE throttled

\* should_detect of one cycle for the row e (existing says whether there is
\* one): the first assignment, the throttle, the re-detection after 7 days
ShouldDetect(existing, e, force, now) ==
    LET first == force \/ ~existing \/ ~e.api_detected
        throttled ==
            IF existing /\ e.api_detection_attempts >= ThrottleAttempts /\ ~force
            THEN IF e.api_next_check # None /\ now < e.api_next_check[1]
                 THEN FALSE
                 ELSE first
            ELSE first
    IN IF existing /\ e.api_last_detected # None
       THEN IF Days(now - e.api_last_detected[1]) > RedetectDays THEN TRUE ELSE throttled
       ELSE throttled

\* variant: next_check is set from the first failure on
CountFailureAlwaysSchedules(existing, e, now) ==
    IF existing
    THEN [e EXCEPT !.api_detection_attempts = e.api_detection_attempts + 1,
                   !.api_next_check = Some(now + ThrottleMinutes)]
    ELSE e

\* a failed or errored detection: the attempt counter of the loaded row
\* goes up, and from 5 attempts on next_check is set 5 minutes ahead
CountFailure(existing, e, now) ==
    IF existing
    THEN LET n == e.api_detection_attempts + 1 IN
         [e EXCEPT !.api_detection_attempts = n,
                   !.api_next_check = IF n >= ThrottleAttempts
                                      THEN Some(now + ThrottleMinutes)
                                      ELSE e.api_next_check]
    ELSE e

\* what the cycle does about detection: "manual" for a row with a username,
\* the outcome of detect_api when detection is due, else "skipped"
DetectionStep(existing, e, should_detect, data, env, now) ==
    IF existing /\ e.api_username # ""
    THEN [outcome |-> "manual", api_detected |-> TRUE,
          api_type |-> IF e.api_type # "" THEN e.api_type ELSE ServiceNameLower,
          api_endpoint |-> e.api_endpoint, e |-> e]
    ELSE IF should_detect
         THEN LET d == detect_api(data.url, env) IN
              IF d.outcome = "found"
              THEN [outcome |-> "found", api_detected |-> TRUE,
                    api_type |-> d.api_type, api_endpoint |-> d.api_endpoint,
                    e |-> IF existing
                          THEN [e EXCEPT !.api_detection_attempts = 0,
                                         !.api_next_check = None]
                          ELSE e]
              ELSE [outcome |-> d.outcome, api_detected |-> FALSE,
                    api_type |-> "", api_endpoint |-> "",
                    e |-> CountFailure(existing, e, now)]
         ELSE [outcome |-> "skipped", api_detected |-> FALSE,
               api_type |-> "", api_endpoint |-> "", e |-> e]

\* dict.update(g) on f: the keys of g with their values, the other keys of f
Merge(f, g) ==
    [k \in DOMAIN f \cup DOMAIN g |-> IF k \in DOMAIN g THEN g[k] ELSE f[k]]

\* the defaults dict of one iteration: e is the row the cycle read (with the
\* counter it has changed in memory), d its detection step
Defaults(existing, e, data, d, now) ==
    LET base == [url |-> data.url, status |-> data.status,
                 last_checked |-> Some(now), api_detected |-> d.api_detected]
        found == Merge(Merge(Merge(
                    [api_last_detected |-> Some(now),
                     api_detection_attempts |-> 0,
                     api_next_check |-> None],
                    IF d.api_type # "" THEN [api_type |-> d.api_type] ELSE <<>>),
                    IF d.api_endpoint # ""
                    THEN [api_endpoint |-> d.api_endpoint] ELSE <<>>),
                    IF ~existing \/ e.api_url = ""
                    THEN [api_url |-> data.url] ELSE <<>>)
        kept == IF existing
                THEN [api_detection_attempts |-> d.e.api_detection_attempts,
                      api_next_check |-> d.e.api_next_check]
                ELSE <<>>
        changed == IF ~existing \/ e.status # data.status
                   THEN [status_changed_at |-> Some(now)] ELSE <<>>
    IN Merge(Merge(base, IF d.api_detected THEN found ELSE kept), changed)

\* Service.objects.update_or_create(traefik_router_name=..., defaults): the
\* row of the router as it is in the store now gets the defaults; when
\* there is none a row is created from the column defaults and the defaults
update_or_create(stored, row, defaults) ==
    Merge(IF stored THEN row ELSE NewService("", "unknown"), defaults)

\* the row after update_or_create when nothing has written the row since
\* the cycle read it; row is the row read, or anything when there is none
ApplyDefaults(existing, row, data, d, now) ==
    update_or_create(existing, row, Defaults(existing, row, data, d, now))

\* one iteration of the loop over the discovered services
SyncService(existing, row, data, force, env, now) ==
    LET should_detect == ShouldDetect(existing, row, force, now)
        d == DetectionStep(existing, row, should_detect, data, env, now)
    IN [row |-> ApplyDefaults(existing, row, data, d, now),
        should_detect |-> should_detect, outcome |-> d.outcome]

\* what Traefik reports for the target: the router is enabled or not, the
\* rule has TLS or not
Discovered == [status : {"up", "unknown"}, url : {"https://svc.lan"}]

\* environments of the scans started by a cycle or on demand
DetectEnvs ==
    {ScanEnv(1, ScanResponse(404, "text/plain"), ScanRaised("ReadTimeout"),
             ScanResponse(404, "text/plain")),
     ScanEnv(3, ScanResponse(401, "text/plain"), ScanRaised("ReadTimeout"),
             ScanResponse(404, "text/plain")),
     ScanEnv(2, ScanRaised("ValueError"), ScanResponse(404, "text/plain"),
             ScanResponse(404, "text/plain"))}

\* detect_service_api on the row s: the row saved and the outcome
detect_service_api(s, env, now) ==
    IF /\ s.api_detected /\ s.api_type # "" /\ s.api_url # ""
       /\ ((s.api_username # "" /\ s.api_password # "") \/ s.api_key # "")
    THEN [row |-> s, outcome |-> "configured"]
    ELSE LET d == detect_api(s.url, env) IN
         IF d.outcome = "found"
         THEN [row |-> [s EXCEPT !.api_detected = TRUE,
                                 !.api_type = d.api_type,
                                 !.api_endpoint = d.api_endpoint,
                                 !.api_last_detected = Some(now),
                                 !.api_url = IF @ = "" THEN RStripSlash(s.url) ELSE @],
               outcome |-> "found"]
         ELSE IF d.outcome = "notfound"
         THEN [row |-> [s EXCEPT !.api_detected = FALSE,
                                 !.api_last_detected = Some(now)],
               outcome |-> "notfound"]
         ELSE [row |-> s, outcome |-> "raised"]

(***************************************************************************)
(* 4.4 Authentication discoverer and 4.5 request executor:                 *)
(* GenericAPIClient.  A Python string that may be None is a TLA+ string    *)
(* with "" for None: the client only tests these values for truth.        *)
(***************************************************************************)
UpperCase == "ABCDEFGHIJKLMNOPQRSTUVWXYZ"
LowerCase == "abcdefghijklmnopqrstuvwxyz"

\* the lower-case letter of every upper-case letter
UpperToLower ==
    [ch \in {SubSeq(UpperCase, i, i) : i \in 1..Len(UpperCase)} |->
        LET i == CHOOSE j \in 1..Len(UpperCase) : SubSeq(UpperCase, j, j) = ch
        IN SubSeq(LowerCase, i, i)]

\* str.lower() of one character
LowerChar(ch) == IF ch \in DOMAIN UpperToLower THEN UpperToLower[ch] ELSE ch

\* str.lower()
RECURSIVE Lower(_)
Lower(s) ==
    IF Len(s) = 0 THEN ""
    ELSE LowerChar(SubSeq(s, 1, 1)) \o Lower(SubSeq(s, 2, Len(s)))

IsSpace(ch) == ch \in {" ", "\n", "\t", "\r"}

\* str.strip()
RECURSIVE Strip(_)
Strip(s) ==
    IF Len(s) = 0 THEN ""
    ELSE IF IsSpace(SubSeq(s, 1, 1)) THEN Strip(SubSeq(s, 2, Len(s)))
    ELSE IF IsSpace(SubSeq(s, Len(s), Len(s))) THEN Strip(SubSeq(s, 1, Len(s) - 1))
    ELSE s

\* response.json() of the bodies the servers of the model send: a dict with
\* its token fields ("" for a field that is absent or empty), another JSON
\* value (a list), null, or a body that is not JSON (ValueError)
JsonDict(jwt, token, access_token, auth_token) ==
    [kind |-> "dict", jwt |-> jwt, token |-> token,
     access_token |-> access_token, auth_token |-> auth_token]
JsonOther(kind) ==
    [kind |-> kind, jwt |-> "", token |-> "", access_token |-> "", auth_token |-> ""]

Json(text) ==
    CASE text = "{\"jwt\": \"j1\", \"token\": \"t1\"}" -> JsonDict("j1", "t1", "", "")
      [] text = "{\"token\": \"t1\"}" -> JsonDict("", "t1", "", "")
      [] text = "{\"token\": \"\", \"access_token\": \"a1\"}" -> JsonDict("", "", "a1", "")
      [] text = "{\"auth_token\": \"u1\"}" -> JsonDict("", "", "", "u1")
      [] text = "{\"token\": \"\"}" -> JsonDict("", "", "", "")
      [] text = "{\"error\": \"bad json body\"}" -> JsonDict("", "", "", "")
      [] text = "{\"items\": 3}" -> JsonDict("", "", "", "")
      [] text = "[]" -> JsonOther("list")
      [] text = "null" -> JsonOther("null")
      [] OTHER -> JsonOther("invalid")

\* one session.post or session.request: a response with its status, its
\* Content-Type header, its body and the names of the cookies it sets, or an
\* exception
HttpResponse(status, content_type, text, cookies) ==
    [kind |-> "response", status |-> status, content_type |-> content_type,
     text |-> text, cookies |-> cookies]
HttpRaised(kind) ==
    [kind |-> kind, status |-> 0, content_type |-> "", text |-> "", cookies |-> {}]

\* GenericAPIClient.__init__ with a non-empty base_url
NewClient(base_url, username, password, api_key, auth_endpoint) ==
    [base_url |-> RStripSlash(IF StartsWith(base_url, "http://")
                                 \/ StartsWith(base_url, "https://")
                              THEN base_url
                              ELSE "https://" \o base_url),
     username |-> username, password |-> password, api_key |-> api_key,
     auth_endpoint |-> auth_endpoint,
     token |-> "", auth_method |-> "",
     headers |-> [X_API_Key |-> "", Authorization |-> ""],
     cookies |-> {}]

\* the common authentication endpoints, by popularity
common_endpoints ==
    <<"/api/v2/auth/login", "/api/auth", "/api/login", "/auth/login",
      "/login", "/api/v1/auth", "/api/v1/login", "/auth">>

\* _try_find_auth_endpoint: the configured endpoint alone, else the common
\* ones; the lookup in the API documentation is guarded by
\* len(candidates) < 3 and there are 8 candidates, so it never runs
try_find_auth_endpoint(c) ==
    IF c.auth_endpoint # "" THEN <<c.auth_endpoint>>
    ELSE common_endpoints

auth_methods == <<"json", "form", "basic">>

\* the first cell of the loops "for endpoint in auth_endpoints: for
\* method_type in auth_methods" is 1, the last Len(endpoints) * 3
AuthPairs(endpoints) ==
    [i \in 1..(Len(endpoints) * Len(auth_methods)) |->
        [endpoint |-> endpoints[((i - 1) \div Len(auth_methods)) + 1],
         method_type |-> auth_methods[((i - 1) % Len(auth_methods)) + 1]]]

\* data.get('jwt') or data.get('token') or data.get('access_token')
\* or data.get('auth_token')
TokenOf(data) ==
    IF data.jwt # "" THEN data.jwt
    ELSE IF data.token # "" THEN data.token
    ELSE IF data.access_token # "" THEN data.access_token
    ELSE data.auth_token

\* "if self.session.cookies": the jar of the session holds a cookie
CookiesSet(c, o) == c.cookies # {}

\* the status 200 branch of _try_authenticate_with_method; c is the client
\* after the session has stored the cookies of the response
LoginAccepted(c, o) ==
    LET content_type == Lower(o.content_type)
        data == Json(o.text)
        token == TokenOf(data)
    IN
    IF /\ (Contains(content_type, "text/plain") \/ Contains(content_type, "text/html"))
       /\ Contains(Strip(Lower(o.text)), "ok")
    THEN [ok |-> TRUE, c |-> c, by |-> "marker"]
    ELSE IF data.kind = "dict" /\ token # ""
         THEN [ok |-> TRUE,
               c |-> [c EXCEPT !.token = token,
                               !.headers.Authorization = "Bearer " \o token],
               by |-> "token"]
         ELSE IF data.kind \in {"list", "null"}
              \* data.get raises AttributeError: the last except clause
              THEN [ok |-> FALSE, c |-> c, by |-> "exception"]
              ELSE IF CookiesSet(c, o)
                   THEN [ok |-> TRUE, c |-> c, by |-> "cookies"]
                   ELSE [ok |-> FALSE, c |-> c, by |-> "nothing"]

\* _try_authenticate_with_method with the outcome o of its POST
try_authenticate_with_method(c, method_type, o) ==
    IF method_type \notin {"json", "form", "basic"}
    THEN [ok |-> FALSE, c |-> c, by |-> "method"]
    ELSE IF o.kind # "response"
         THEN [ok |-> FALSE, c |-> c, by |-> "exception"]
         ELSE LET stored == [c EXCEPT !.cookies = @ \cup o.cookies] IN
              IF o.status = 200
              THEN LoginAccepted(stored, o)
              ELSE [ok |-> FALSE, c |-> stored, by |-> "status"]

\* the result of authenticate: its return value, the client afterwards, the
\* POSTs sent and the cell of the matrix that was accepted (0 for none)
AuthResult(ok, c, posts, accepted) ==
    [ok |-> ok, c |-> c, posts |-> posts, accepted |-> accepted]

\* the timeout of every session.post of a login attempt, in seconds
LoginTimeout == 5

\* one login POST: where it went, how the credentials were encoded, and
\* its outcome
Post(c, cell, o) ==
    [url |-> c.base_url \o cell.endpoint, method_type |-> cell.method_type,
     outcome |-> o, timeout |-> LoginTimeout]

\* variant: a rejected cell ends the walk of the matrix
RECURSIVE AuthFromStopOnReject(_, _, _, _, _)
AuthFromStopOnReject(c, pairs, env, i, posts) ==
    IF i > Len(pairs) THEN AuthResult(FALSE, c, posts, 0)
    ELSE LET r == try_authenticate_with_method(c, pairs[i].method_type, env[i])
             sent == Append(posts, Post(c, pairs[i], env[i]))
         IN IF r.ok
            THEN AuthResult(TRUE, [r.c EXCEPT !.auth_method = pairs[i].method_type],
                            sent, i)
            ELSE AuthResult(FALSE, r.c, sent, 0)

\* the two loops of authenticate from cell i on; env[i] is the outcome of
\* the POST of cell i
RECURSIVE AuthFrom(_, _, _, _, _)
AuthFrom(c, pairs, env, i, posts) ==
    IF i > Len(pairs) THEN AuthResult(FALSE, c, posts, 0)
    ELSE LET r == try_authenticate_with_method(c, pairs[i].method_type, env[i])
             sent == Append(posts, Post(c, pairs[i], env[i]))
         IN IF r.ok
            THEN AuthResult(TRUE, [r.c EXCEPT !.auth_method = pairs[i].method_type],
                            sent, i)
            ELSE AuthFrom(r.c, pairs, env, i + 1, sent)

\* variant: the username and password are looked at before the API key
authenticate_password_first(c, env) ==
    IF c.username = "" \/ c.password = ""
    THEN IF c.api_key # ""
         THEN AuthResult(TRUE,
                         [c EXCEPT !.token = c.api_key,
                                   !.headers.X_API_Key = c.api_key,
                                   !.auth_method = "api_key"],
                         <<>>, 0)
         ELSE AuthResult(FALSE, c, <<>>, 0)
    ELSE AuthFrom(c, AuthPairs(try_find_auth_endpoint(c)), env, 1, <<>>)

\* GenericAPIClient.authenticate
authenticate(c, env) ==
    IF c.api_key # ""
    THEN AuthResult(TRUE,
                    [c EXCEPT !.token = c.api_key,
                              !.headers.X_API_Key = c.api_key,
                              !.auth_method = "api_key"],
                    <<>>, 0)
    ELSE IF c.username = "" \/ c.password = ""
         THEN AuthResult(FALSE, c, <<>>, 0)
         ELSE AuthFrom(c, AuthPairs(try_find_auth_endpoint(c)), env, 1, <<>>)

\* response.text[:300]
ShownChars == 300
Truncate(text, n) == SubSeq(text, 1, IF Len(text) < n THEN Len(text) ELSE n)

\* what request() hands to its caller: a returned value (True, the parsed
\* JSON, the text of the body, None) or a raised Exception with its message
Returned(type, text) == [kind |-> "return", type |-> type, text |-> text]
RaisedException(message) == [kind |-> "raise", type |-> "Exception", text |-> message]
PyNone == Returned("None", "")
PyTrue == Returned("bool", "True")

\* the except clauses of request(), in their order, for an exception of the
\* requests library or any other (SSLError is a ConnectionError and is
\* caught by that clause)
RequestHandler(kind, url) ==
    IF IsTimeout(kind)
    THEN RaisedException("Request timeout: The API at " \o url
                         \o " did not respond within 10 seconds")
    ELSE IF IsConnectionError(kind)
    THEN RaisedException("Connection error: Cannot connect to " \o url
                         \o ". Error: " \o kind)
    ELSE IF IsSSLError(kind)
    THEN RaisedException("SSL certificate error for " \o url \o ": " \o kind)
    ELSE [kind |-> "raise", type |-> kind, text |-> kind]

\* response.raise_for_status(): HTTPError for 4xx and 5xx
RaisesForStatus(status) == 400 <= status /\ status < 600

\* the end of request() for the terminal response o: raise_for_status, then
\* the parse of the body
Conclude(o, url) ==
    IF o.kind # "response" THEN RequestHandler(o.kind, url)
    ELSE IF RaisesForStatus(o.status)
    THEN RaisedException("HTTP error " \o ToString(o.status) \o ": "
                         \o Truncate(o.text, ShownChars))
    ELSE IF o.text = "" THEN PyTrue
    ELSE LET data == Json(o.text) IN
         IF data.kind = "invalid" THEN Returned("str", o.text)
         ELSE IF data.kind = "null" THEN PyNone
         ELSE Returned(data.kind, o.text)

\* the timeout of every session.request of request(), in seconds
RequestTimeout == 10

\* one session.request: what is sent, and the session afterwards
Send(c, url) == [url |-> url, headers |-> c.headers, timeout |-> RequestTimeout]
Received(c, o) ==
    IF o.kind = "response" THEN [c EXCEPT !.cookies = @ \cup o.cookies] ELSE c

\* a request() call: the client, the requests sent so far, the results of
\* the authenticate() calls made so far, the login POSTs, the terminal
\* outcome, and the value handed to the caller
Call(c, sends, auths, posts, last, ret) ==
    [c |-> c, sends |-> sends, auths |-> auths, posts |-> posts,
     last |-> last, ret |-> ret]

\* variant: the request is retransmitted whether or not the
\* re-authentication succeeded
UnauthorizedRetryAlways(call, url, o2, env) ==
    CHOOSE r \in
        {Call(Received(a.c, o2), Append(call.sends, Send(a.c, url)),
              Append(call.auths, a.ok), call.posts \o a.posts,
              o2, Conclude(o2, url)) :
         a \in {authenticate(call.c, env)}} : TRUE

\* the branch of request() for a first response with status 401:
\* authenticate again, then retransmit once (outcome o2) or return None.
\* The result a of authenticate is bound as the element of a one-element
\* set, which evaluates it once.
Unauthorized(call, url, o2, env) ==
    CHOOSE r \in
        {IF a.ok
         THEN Call(Received(a.c, o2), Append(call.sends, Send(a.c, url)),
                   Append(call.auths, a.ok), call.posts \o a.posts,
                   o2, Conclude(o2, url))
         ELSE Call(a.c, call.sends, Append(call.auths, a.ok),
                   call.posts \o a.posts, call.last, PyNone) :
         a \in {authenticate(call.c, env)}} : TRUE

\* request() from the first session.request on, its outcome being o1
Transmit(call, url, o1, o2, env) ==
    LET sent == Call(Received(call.c, o1), Append(call.sends, Send(call.c, url)),
                     call.auths, call.posts, o1, Conclude(o1, url))
    IN IF o1.kind = "response" /\ o1.status = 401
       THEN Unauthorized(sent, url, o2, env)
       ELSE sent

\* GenericAPIClient.request(method, endpoint): authenticate first when the
\* session holds neither a token nor a cookie
request(c, endpoint, o1, o2, env) ==
    LET path == IF StartsWith(endpoint, "/") THEN endpoint ELSE "/" \o endpoint
        url == c.base_url \o path
        start == Call(c, <<>>, <<>>, <<>>, HttpRaised("none"), PyNone)
    IN IF c.token = "" /\ c.cookies = {}
       THEN CHOOSE r \in
                {IF a.ok
                 THEN Transmit(Call(a.c, <<>>, <<a.ok>>, a.posts, start.last, PyNone),
                               url, o1, o2, env)
                 ELSE Call(a.c, <<>>, <<a.ok>>, a.posts, start.last, PyNone) :
                 a \in {authenticate(c, env)}} : TRUE
       ELSE Transmit(start, url, o1, o2, env)

\* a JsonResponse of the proxy: its status, its success flag, and the data
\* or the error it carries
Reply(status, success, data) == [status |-> status, success |-> success, data |-> data]

\* the client the proxy builds: with the username and the password when
\* the row has both, else with the API key
ProxyClient(s) ==
    LET both == s.api_username # "" /\ s.api_password # "" IN
    NewClient(s.api_url,
              IF both THEN s.api_username ELSE "",
              IF both THEN s.api_password ELSE "",
              IF both THEN "" ELSE s.api_key,
              "")

\* generic_api_proxy for the row s, when there is one, and the query
\* parameter path.  get_object_or_404 stands before every try statement:
\* without a row Http404 leaves the view and Django answers 404
generic_api_proxy(stored, s, target_path, o1, o2, env) ==
    LET no_call == Call(ProxyClient(s), <<>>, <<>>, <<>>, HttpRaised("none"), PyNone)
    IN
    IF ~stored
    THEN [reply |-> Reply(404, FALSE, RaisedException("Http404")),
          called |-> FALSE, call |-> no_call]
    ELSE IF s.api_url = ""
    THEN [reply |-> Reply(400, FALSE, Returned("str", "API URL not configured. Please configure API credentials in the service detail page.")),
          called |-> FALSE, call |-> no_call]
    ELSE IF ~((s.api_username # "" /\ s.api_password # "") \/ s.api_key # "")
    THEN [reply |-> Reply(400, FALSE, Returned("str", "API credentials not configured. Please add username/password or API key in the service detail page.")),
          called |-> FALSE, call |-> no_call]
    ELSE IF target_path = ""
    THEN [reply |-> Reply(400, FALSE, Returned("str", "Missing \"path\" query parameter. Example: ?path=/api/v1/status")),
          called |-> FALSE, call |-> no_call]
    ELSE CHOOSE p \in
             {IF r.ret.kind = "raise"
              THEN [reply |-> Reply(500, FALSE, r.ret), called |-> TRUE, call |-> r]
              ELSE [reply |-> Reply(200, TRUE, r.ret), called |-> TRUE, call |-> r] :
              r \in {request(ProxyClient(s), target_path, o1, o2, env)}} : TRUE

\* the outcomes of the POST of one cell of the login matrix
LoginOutcomes ==
    {HttpResponse(200, "text/plain; charset=utf-8", "Ok.", {}),
     HttpResponse(200, "Text/HTML; charset=UTF-8", "  OK\n", {"SID"}),
     HttpResponse(200, "text/plain; charset=utf-8", "Fails.", {}),
     HttpResponse(200, "application/json", "{\"token\": \"t1\"}", {}),
     HttpResponse(200, "application/json", "{\"jwt\": \"j1\", \"token\": \"t1\"}", {}),
     HttpResponse(200, "application/json", "{\"token\": \"\", \"access_token\": \"a1\"}", {}),
     HttpResponse(200, "application/json", "{\"auth_token\": \"u1\"}", {"SID"}),
     HttpResponse(200, "application/json", "{\"error\": \"bad json body\"}", {}),
     HttpResponse(200, "application/json", "{\"token\": \"\"}", {"SID"}),
     HttpResponse(200, "text/html", "<html>login</html>", {}),
     HttpResponse(200, "application/json", "[]", {"SID"}),
     HttpResponse(201, "application/json", "{\"token\": \"t1\"}", {"SID"}),
     HttpResponse(401, "application/json", "{\"error\": \"bad json body\"}", {"csrf"}),
     HttpResponse(401, "text/plain", "Ok.", {}),
     HttpResponse(500, "text/html", "", {}),
     HttpRaised("ReadTimeout"), HttpRaised("ConnectionError"),
     HttpRaised("ValueError")}

\* what the cells before the one looked at answer: no such endpoint, or a
\* refusal that sets a cookie
LoginFillers ==
    {HttpResponse(404, "text/html", "", {}),
     HttpResponse(401, "application/json", "{\"error\": \"bad json body\"}", {"csrf"})}

\* the cells looked at: the first two encodings of the first endpoint, the
\* first encoding of the second endpoint, the last cell of the matrix
MatrixCells == Len(common_endpoints) * Len(auth_methods)
CellsTried == {1, 2, 4, MatrixCells}

\* the login server: cell k answers o, the cells before it b, the cells
\* after it 404
LoginEnv(k, o, b) ==
    [i \in 1..MatrixCells |->
        IF i < k THEN b
        ELSE IF i = k THEN o
        ELSE HttpResponse(404, "text/html", "", {})]

LoginEnvs ==
    {LoginEnv(k, o, b) : k \in CellsTried, o \in LoginOutcomes, b \in LoginFillers}

\* a body longer than the 300 characters an error message shows
RECURSIVE Repeat(_, _)
Repeat(s, n) == IF n = 0 THEN "" ELSE s \o Repeat(s, n - 1)
LongBody == Repeat("0123456789", 30) \o "abcdefghij"

\* the outcomes of one transmission of the request itself
RequestOutcomes ==
    {HttpResponse(200, "application/json", "{\"items\": 3}", {}),
     HttpResponse(200, "application/json", "null", {}),
     HttpResponse(200, "text/plain", "pong", {"SID"}),
     HttpResponse(201, "application/json", "[]", {}),
     HttpResponse(204, "", "", {}),
     HttpResponse(300, "text/html", "choices", {}),
     HttpResponse(304, "", "", {}),
     HttpResponse(401, "text/plain", "unauthorized", {}),
     HttpResponse(403, "text/html", LongBody, {}),
     HttpResponse(404, "application/json", "{\"error\": \"bad json body\"}", {}),
     HttpResponse(500, "text/html", "", {}),
     HttpRaised("ReadTimeout"), HttpRaised("ConnectTimeout"),
     HttpRaised("ConnectionError"), HttpRaised("SSLError"),
     HttpRaised("TooManyRedirects"), HttpRaised("ValueError")}

\* the outcomes of the retransmission after a 401
RetryOutcomes ==
    {HttpResponse(200, "application/json", "{\"items\": 3}", {}),
     HttpResponse(204, "", "", {}),
     HttpResponse(304, "", "", {}),
     HttpResponse(401, "text/plain", "unauthorized", {}),
     HttpResponse(403, "text/html", LongBody, {}),
     HttpRaised("ReadTimeout"), HttpRaised("SSLError")}

\* the login servers met while a request is made: every cell refuses; the
\* first cell hands out a token; the first cell refuses and sets a cookie,
\* the second answers 200 with a login page
RequestEnvs ==
    {LoginEnv(1, HttpResponse(404, "text/html", "", {}),
              HttpResponse(404, "text/html", "", {})),
     LoginEnv(1, HttpResponse(200, "application/json", "{\"token\": \"t1\"}", {}),
              HttpResponse(404, "text/html", "", {})),
     LoginEnv(2, HttpResponse(200, "text/html", "<html>login</html>", {}),
              HttpResponse(401, "application/json", "{\"error\": \"bad json body\"}",
                           {"csrf"}))}

\* the credentials and the endpoint a client is constructed with
ClientConfig(base_url, username, password, api_key, auth_endpoint) ==
    [base_url |-> base_url, username |-> username, password |-> password,
     api_key |-> api_key, auth_endpoint |-> auth_endpoint]

ClientConfigs ==
    {ClientConfig("svc.lan:9000", "", "", "k-123", ""),
     ClientConfig("https://svc.lan/", "admin", "secret", "k-123", ""),
     ClientConfig("https://svc.lan/", "admin", "secret", "", ""),
     ClientConfig("https://svc.lan/", "admin", "secret", "", "/custom/login"),
     ClientConfig("https://svc.lan/", "admin", "", "", ""),
     ClientConfig("https://svc.lan/", "", "secret", "", ""),
     ClientConfig("https://svc.lan/", "", "", "", "")}

ClientOf(cfg) ==
    NewClient(cfg.base_url, cfg.username, cfg.password, cfg.api_key,
              cfg.auth_endpoint)

\* the endpoints asked for: with and without the leading slash
Endpoints == {"/api/items", "api/items"}

\* the client object, the number of calls made on it, and the last call:
\* which one, the client before it, the cell of the matrix that was
\* accepted, the call itself, the outcomes of its transmissions, the reply
\* of the proxy
ClientLog(obj, calls, op, before, accepted, call, outcomes, reply) ==
    [obj |-> obj, calls |-> calls, op |-> op, before |-> before,
     accepted |-> accepted, call |-> call, outcomes |-> outcomes, reply |-> reply]

NoCall(c) == Call(c, <<>>, <<>>, <<>>, HttpRaised("none"), PyNone)
NoReply == Reply(0, FALSE, PyNone)

FreshClient(cfg) ==
    ClientLog(ClientOf(cfg), 0, "none", ClientOf(cfg), 0,
              NoCall(ClientOf(cfg)), <<>>, NoReply)

NoClient == FreshClient(ClientConfig("https://svc.lan/", "", "", "", ""))

(***************************************************************************)
(* Threads.  No operation takes a lock or runs in a transaction, and an    *)
(* operation that waits for the network holds a model instance meanwhile:  *)
(* it loads the row, waits, and then writes from the instance it loaded.   *)
(* Such an operation is two steps of a thread, its start and its end, and  *)
(* the steps of the other operations come in between.                      *)
(***************************************************************************)
\* no thread is inside an operation
Quiet == \A t \in Threads : race.threads[t].pc = "idle"

\* a step of another operation can come now: while a thread is inside an
\* operation at most MaxOverlaps steps of others come in between, and the
\* operations that overlap are among the first MaxRaceOps of a behaviour
MayInterleave ==
    Quiet \/ (race.overlaps < MaxOverlaps /\ race.ops < MaxRaceOps)

\* the thread that takes the next operation: the first idle one
FirstIdle == IF race.threads["t1"].pc = "idle" THEN "t1" ELSE "t2"

CanBegin(t) == race.threads[t].pc = "idle" /\ t = FirstIdle /\ MayInterleave

\* the count of operations begun, up to MaxRaceOps
Counted(n) == IF n < MaxRaceOps THEN n + 1 ELSE n

\* the bookkeeping of a step that is not the end of an operation; last,
\* by, before and reply describe the latest step
Stepped(step, t) ==
    [race EXCEPT !.ops = Counted(@),
                 !.overlaps = IF Quiet THEN @ ELSE @ + 1,
                 !.last = step, !.by = t,
                 !.before = NewService("", "unknown"), !.reply = 0]

\* thread t begins an operation and is now as th says
Begun(step, t, th) == [Stepped(step, t) EXCEPT !.threads[t] = th]

\* thread t ends its operation
Ended(step, t) ==
    [race EXCEPT !.threads[t] = NoThread,
                 !.overlaps = IF \A u \in Threads \ {t} : race.threads[u].pc = "idle"
                              THEN 0 ELSE @,
                 !.last = step, !.by = t,
                 !.before = NewService("", "unknown"), !.reply = 0]

\* self.save() without update_fields: an UPDATE of every column of the
\* instance, and an INSERT of the instance when the row is gone
Save(row, obj) == obj

(***************************************************************************)
(* The clock.                                                              *)
(***************************************************************************)
\* the lengths of the successive waits between operations, in minutes:
\* 1 minute, 4 minutes, 7 days and 1 hour, 23 hours, and again
TickSteps == <<1, 4, 10140, 1380>>

Tick ==
    /\ ticks < MaxTicks
    /\ MayInterleave
    /\ clock' = clock + TickSteps[(ticks % Len(TickSteps)) + 1]
    /\ ticks' = ticks + 1
    /\ race' = [race EXCEPT !.overlaps = IF Quiet THEN @ ELSE @ + 1]
    /\ UNCHANGED <<svc, probe, cls, scan, present, sync, detect, client, field, traefik, cycle>>

(***************************************************************************)
(* Actions of the classifier.                                              *)
(***************************************************************************)
Classify ==
    /\ cls.verdict = "unset"
    /\ cls' = [cls EXCEPT !.verdict = IF is_service_up(cls.code) THEN "up" ELSE "down"]
    /\ UNCHANGED <<clock, ticks, svc, probe, scan, present, sync, detect, client, field, traefik, race, cycle>>

InitClassifier ==
    /\ clock = 0 /\ ticks = 0
    /\ svc = NewService("http://svc.lan", "unknown")
    /\ probe = NoProbe
    /\ cls \in [code : MinCode..MaxCode, verdict : {"unset"}]
    /\ scan = NoScan
    /\ present = TRUE /\ sync = NoSync
    /\ detect = NoDetect /\ client = NoClient
    /\ field = NoField /\ traefik = NoTraefik /\ race = NoRace /\ cycle = NoCycle

SpecClassifier == InitClassifier /\ [][Classify]_vars

(***************************************************************************)
(* Actions of the scanner.                                                 *)
(***************************************************************************)
Scan ==
    /\ ~scan.done
    /\ scan' = [scan EXCEPT !.done = TRUE,
                            !.result = probe_api_endpoints(scan.base_url, scan.env)]
    /\ UNCHANGED <<clock, ticks, svc, probe, cls, present, sync, detect, client, field, traefik, race, cycle>>

InitScan ==
    /\ clock = 0 /\ ticks = 0
    /\ svc = NewService("http://svc.lan", "unknown")
    /\ probe = NoProbe
    /\ cls = NoClassification
    /\ scan \in [base_url : ScanBases, env : ScanEnvs, done : {FALSE},
                 result : {ScanResult(FALSE, None, <<>>, FALSE)}]
    /\ present = TRUE /\ sync = NoSync
    /\ detect = NoDetect /\ client = NoClient
    /\ field = NoField /\ traefik = NoTraefik /\ race = NoRace /\ cycle = NoCycle

SpecScan == InitScan /\ [][Scan]_vars

(***************************************************************************)
(* Actions of the scheduler: sync cycles, detection on demand, credentials *)
(***************************************************************************)
\* the row a sync cycle finds for the router of the target (the filter on
\* traefik_router_name): a row made by hand has no router name
RouterRow == present /\ ~svc.is_manual

\* one iteration of the loop of sync_traefik_services(force) while Traefik
\* answers and reports the target, up to the scan: the row is read and
\* should_detect is decided
SyncStart(t) ==
    /\ CanBegin(t)
    /\ svc.api_detection_attempts < MaxAttempts
    /\ \E force \in BOOLEAN :
          race' = Begun("read", t,
                        [NoThread EXCEPT
                            !.pc = "syncing", !.via = "sync_traefik_services",
                            !.obj = IF RouterRow THEN svc ELSE NewService("", "unknown"),
                            !.existing = RouterRow, !.force = force,
                            !.should_detect =
                                ShouldDetect(RouterRow, svc, force, clock)])
    /\ probe' = NoProbe /\ sync' = NoSync /\ detect' = NoDetect
    /\ UNCHANGED <<clock, ticks, svc, cls, scan, present, client, field,
                   traefik, cycle>>

\* the rest of the iteration: the scan when it is due, the defaults, and
\* update_or_create on the row as it is then.  data is what Traefik reported
\* for the target before the loop (the iteration only uses it here).  On a
\* row of the same name made by hand the INSERT fails on the unique name;
\* the except clause of the loop logs it and the service is not counted.
\* sync and detect describe the last of these operations on the target.
SyncFinish(t) ==
    /\ race.threads[t].pc = "syncing"
    /\ \E data \in Discovered, env \in DetectEnvs :
          LET th == race.threads[t]
              d == DetectionStep(th.existing, th.obj, th.should_detect, data,
                                 env, clock)
              clash == present /\ svc.is_manual
              row == IF clash THEN svc
                     ELSE update_or_create(RouterRow, svc,
                              Defaults(th.existing, th.obj, data, d, clock))
          IN /\ svc' = row
             /\ sync' = [force |-> th.force, should_detect |-> th.should_detect,
                         outcome |-> d.outcome, ret |-> IF clash THEN 0 ELSE 1,
                         now |-> clock, existing |-> th.existing,
                         read |-> th.obj, before |-> svc, stored |-> row]
    /\ present' = TRUE
    /\ detect' = NoDetect
    /\ race' = [Ended("sync", t) EXCEPT !.before = svc]
    /\ probe' = NoProbe
    /\ UNCHANGED <<clock, ticks, cls, scan, client, field, traefik, cycle>>

\* sync_traefik_services while Traefik is not configured or does not answer
SyncUnavailable ==
    /\ MayInterleave
    /\ \E force \in BOOLEAN :
          sync' = [NoSync EXCEPT !.force = force, !.outcome = "unavailable"]
    /\ detect' = NoDetect
    /\ race' = Stepped("unavailable", "none")
    /\ probe' = NoProbe
    /\ UNCHANGED <<clock, ticks, svc, cls, scan, present, client, field,
                   traefik, cycle>>

\* detect_service_api: the view loads the row (404 when there is none) and
\* calls the scanner
DetectStart(t) ==
    /\ CanBegin(t)
    /\ race' = IF present
               THEN Begun("load", t,
                          [NoThread EXCEPT !.pc = "detecting",
                                           !.via = "detect_service_api",
                                           !.obj = svc])
               ELSE [Stepped("load", t) EXCEPT !.reply = 404]
    /\ probe' = NoProbe /\ sync' = NoSync /\ detect' = NoDetect
    /\ UNCHANGED <<clock, ticks, svc, cls, scan, present, client, field,
                   traefik, cycle>>

\* the scan is over: the view writes the result on the instance it loaded
\* and saves it; it saves nothing when the API was configured already or
\* the scanner raised
DetectFinish(t) ==
    /\ race.threads[t].pc = "detecting"
    /\ \E env \in DetectEnvs :
          LET r == detect_service_api(race.threads[t].obj, env, clock)
              saves == r.outcome \in {"found", "notfound"}
          IN /\ svc' = IF saves THEN Save(svc, r.row) ELSE svc
             /\ present' = (present \/ saves)
             /\ detect' = [outcome |-> r.outcome, now |-> clock,
                           loaded |-> race.threads[t].obj, saved |-> r.row]
             /\ race' = [Ended("detect", t) EXCEPT
                            !.reply = IF r.outcome = "raised" THEN 500 ELSE 200]
    /\ sync' = NoSync
    /\ probe' = NoProbe
    /\ UNCHANGED <<clock, ticks, cls, scan, client, field, traefik, cycle>>

\* request bodies of update_service_credentials: every key is optional
CredentialPayloads ==
    {[api_username |-> "", api_password |-> "", api_key |-> ""],
     [api_username |-> "admin", api_password |-> "secret", api_key |-> ""],
     [api_username |-> "admin"],
     [api_url |-> " svc.lan/", api_type |-> "svclan"]}

\* the value of the key k of a request body, or the value v when the body
\* does not have the key
Given(data, k, v) == IF k \in DOMAIN data THEN data[k] ELSE v

\* the api_url a body gives: stripped, https:// put before it when it has
\* no scheme, trailing slashes removed; an empty one changes nothing
GivenApiUrl(data, old) ==
    LET api_url == Strip(Given(data, "api_url", "")) IN
    IF api_url = "" THEN old
    ELSE RStripSlash(IF StartsWith(api_url, "http://") \/ StartsWith(api_url, "https://")
                     THEN api_url
                     ELSE "https://" \o api_url)

\* update_service_credentials on the instance s: the keys of the body are
\* assigned, the others stay
update_service_credentials(s, data) ==
    [s EXCEPT !.api_url = GivenApiUrl(data, @),
              !.api_type = Given(data, "api_type", @),
              !.api_username = Given(data, "api_username", @),
              !.api_password = Given(data, "api_password", @),
              !.api_key = Given(data, "api_key", @)]

\* POST update_service_credentials: load, assign, save (404 without a row)
UpdateCredentials ==
    /\ MayInterleave
    /\ IF present
       THEN \E data \in CredentialPayloads :
               /\ svc' = Save(svc, update_service_credentials(svc, data))
               /\ race' = [Stepped("credentials", "none") EXCEPT !.reply = 200]
       ELSE /\ svc' = svc
            /\ race' = [Stepped("credentials", "none") EXCEPT !.reply = 404]
    /\ probe' = NoProbe /\ sync' = NoSync /\ detect' = NoDetect
    /\ UNCHANGED <<clock, ticks, cls, scan, present, client, field, traefik,
                   cycle>>

\* the scan of a target that has no API: every candidate answers 404
NothingFound ==
    ScanEnv(1, ScanResponse(404, "text/plain"), ScanRaised("ReadTimeout"),
            ScanResponse(404, "text/plain"))

\* the row of the target after n non-forced cycles at minute 0 that found
\* its router not enabled and no API
RECURSIVE AfterCycles(_)
AfterCycles(n) ==
    IF n = 0 THEN NewService("", "unknown")
    ELSE SyncService(n > 1, AfterCycles(n - 1),
                     [status |-> "unknown", url |-> "https://svc.lan"],
                     FALSE, NothingFound, 0).row

\* the store is empty, or an earlier cycle has created the row, or six
\* cycles have failed and the fifth failure has started the throttle
StartCycles == {0, 1, ThrottleAttempts + 1}

Init ==
    /\ clock = 0 /\ ticks = 0
    /\ \E n \in StartCycles : svc = AfterCycles(n) /\ present = (n > 0)
    /\ probe = NoProbe
    /\ cls = NoClassification
    /\ scan = NoScan
    /\ sync = NoSync
    /\ detect = NoDetect /\ client = NoClient
    /\ field = NoField /\ traefik = NoTraefik /\ race = NoRace /\ cycle = NoCycle

Next ==
    \/ Tick
    \/ \E t \in Threads : SyncStart(t)
    \/ \E t \in Threads : SyncFinish(t)
    \/ SyncUnavailable
    \/ \E t \in Threads : DetectStart(t)
    \/ \E t \in Threads : DetectFinish(t)
    \/ UpdateCredentials

Spec == Init /\ [][Next]_vars

(***************************************************************************)
(* Actions of the health prober and of the views that make, edit and       *)
(* remove a row by hand.                                                   *)
(***************************************************************************)
\* the record of one check_health call on the instance s that ended at time
\* now with the saved instance r.obj
ProbeRecord(via, s, o1, o2, r, now) ==
    [called |-> TRUE, via |-> via, start_url |-> s.url, old_status |-> s.status,
     now |-> now, requests |-> r.requests,
     outcomes |-> IF Len(r.requests) = 2 THEN <<o1, o2>> ELSE <<o1>>,
     ret |-> r.ret, loaded |-> s, saved |-> r.obj]

\* the url values of the request bodies of create_service and update_service
UrlEdits == {"", "http://svc.lan", " svc.lan/ ", "https://svc.lan/go/https://x"}

\* url.strip(), https:// before a URL without scheme, rstrip('/')
NormalizeUrl(raw) ==
    LET url == Strip(raw) IN
    RStripSlash(IF StartsWith(url, "http://") \/ StartsWith(url, "https://")
                THEN url
                ELSE "https://" \o url)

\* check_service_health (404 when there is no row), or one row of the loop of
\* check_all_services_health or refresh_services: the row is loaded and
\* check_health sends its first GET
ProbeStart(t) ==
    /\ CanBegin(t)
    /\ \E via \in ProbeCallers :
          IF present
          THEN race' = Begun("start", t,
                             [NoThread EXCEPT !.pc = "probing", !.via = via,
                                              !.obj = svc])
          ELSE /\ via = "check_service_health"
               /\ race' = [Stepped("start", t) EXCEPT !.reply = 404]
    /\ probe' = NoProbe /\ sync' = NoSync /\ detect' = NoDetect
    /\ UNCHANGED <<clock, ticks, svc, cls, scan, present, client, field,
                   traefik, cycle>>

\* check_health on the instance s sends a second GET after the outcome o1
NeedsRetry(s, o1) == Len(Attempt(s, o1, 0, o1, 0).requests) > 1

\* the requests of check_health are over: the verdict is written on the
\* instance the thread holds and self.save() stores it; the view answers
\* outcomes and elapsed are what the network can answer
ProbeEnd(t, outcomes, elapsed) ==
    /\ \E o1 \in outcomes, ms \in elapsed :
          \E o2 \in (IF NeedsRetry(race.threads[t].obj, o1)
                     THEN outcomes ELSE {o1}) :
             LET s == race.threads[t].obj
                 r == check_health(s, o1, ms, o2, ms, clock)
             IN /\ svc' = Save(svc, r.obj)
                /\ probe' = ProbeRecord(race.threads[t].via, s, o1, o2, r, clock)
    /\ present' = TRUE
    /\ race' = [Ended("save", t) EXCEPT
                   !.before = svc,
                   !.reply = IF race.threads[t].via = "dashboard" THEN 0 ELSE 200]
    /\ sync' = NoSync /\ detect' = NoDetect
    /\ UNCHANGED <<clock, ticks, cls, scan, client, field, traefik, cycle>>

ProbeFinish(t) ==
    /\ race.threads[t].pc = "probing"
    /\ ProbeEnd(t, ProbeOutcomes, ElapsedMs)

\* the clock of the prober
ProbeTick == ticks < MaxProbeTicks /\ Tick

\* update_service with a url in its body: 500 without a row (the Http404 is
\* caught by the except clause of the view), 403 for a row that was not
\* made by hand; else the URL is assigned when it is not empty, the instance
\* is saved and check_health is called on it
UpdateService(t) ==
    /\ CanBegin(t)
    /\ \E raw \in UrlEdits :
          IF ~present \/ ~svc.is_manual
          THEN /\ svc' = svc
               /\ race' = [Stepped("update_service", t) EXCEPT
                              !.reply = IF present THEN 403 ELSE 500]
          ELSE LET edited == [svc EXCEPT
                                 !.url = IF Strip(raw) = "" THEN @
                                         ELSE NormalizeUrl(raw)]
               IN /\ svc' = Save(svc, edited)
                  /\ race' = [Begun("update_service", t,
                                    [NoThread EXCEPT !.pc = "probing",
                                                     !.via = "update_service",
                                                     !.obj = edited])
                              EXCEPT !.before = svc]
    /\ probe' = NoProbe /\ sync' = NoSync /\ detect' = NoDetect
    /\ UNCHANGED <<clock, ticks, cls, scan, present, client, field, traefik,
                   cycle>>

\* create_service for the name of the target: 400 for an empty url and for
\* a name that is taken; else the row is created, made by hand and with
\* status unknown, and check_health is called on it
CreateService(t) ==
    /\ CanBegin(t)
    /\ \E raw \in UrlEdits :
          IF Strip(raw) = "" \/ present
          THEN /\ svc' = svc /\ present' = present
               /\ race' = [Stepped("create_service", t) EXCEPT !.reply = 400]
          ELSE LET row == [NewService(NormalizeUrl(raw), "unknown") EXCEPT
                              !.is_manual = TRUE]
               IN /\ svc' = row /\ present' = TRUE
                  /\ race' = [Begun("create_service", t,
                                    [NoThread EXCEPT !.pc = "probing",
                                                     !.via = "create_service",
                                                     !.obj = row])
                              EXCEPT !.before = svc]
    /\ probe' = NoProbe /\ sync' = NoSync /\ detect' = NoDetect
    /\ UNCHANGED <<clock, ticks, cls, scan, client, field, traefik, cycle>>

\* delete_service: 500 without a row, 403 for a row that was not made by
\* hand; else the row is removed
DeleteService ==
    /\ MayInterleave
    /\ IF ~present \/ ~svc.is_manual
       THEN /\ svc' = svc /\ present' = present
            /\ race' = [Stepped("delete_service", "none") EXCEPT
                           !.reply = IF present THEN 403 ELSE 500]
       ELSE /\ svc' = NewService("", "unknown") /\ present' = FALSE
            /\ race' = [Stepped("delete_service", "none") EXCEPT
                           !.before = svc, !.reply = 200]
    /\ probe' = NoProbe /\ sync' = NoSync /\ detect' = NoDetect
    /\ UNCHANGED <<clock, ticks, cls, scan, client, field, traefik, cycle>>

\* the row create_service has made at minute 0 for a target that answered
\* 200 after 120 ms
HandMade ==
    [NewService("https://svc.lan", "up") EXCEPT
        !.is_manual = TRUE, !.response_time = Some(120),
        !.last_checked = Some(0), !.status_changed_at = Some(0)]

\* the store is empty, or holds the row of the target as a sync cycle made
\* it for a router that is not enabled, or as create_service made it
InitProbe ==
    /\ clock = 0 /\ ticks = 0
    /\ \/ present = FALSE /\ svc = NewService("", "unknown")
       \/ present = TRUE /\ svc \in {NewService(u, "unknown") : u \in Urls}
       \/ present = TRUE /\ svc = HandMade
    /\ probe = NoProbe
    /\ cls = NoClassification
    /\ scan = NoScan
    /\ sync = NoSync
    /\ detect = NoDetect /\ client = NoClient
    /\ field = NoField /\ traefik = NoTraefik /\ race = NoRace /\ cycle = NoCycle

NextProbe ==
    \/ ProbeTick
    \/ \E t \in Threads : ProbeStart(t)
    \/ \E t \in Threads : ProbeFinish(t)
    \/ \E t \in Threads : UpdateService(t)
    \/ \E t \in Threads : CreateService(t)
    \/ DeleteService

SpecProbe == InitProbe /\ [][NextProbe]_vars

(***************************************************************************)
(* Actions of the API client: authenticate() and request() on one client   *)
(* object, and the proxy endpoint, which builds a client of its own from   *)
(* the stored row for every request it relays.  A client object serves one *)
(* request, as in generic_api_proxy, the caller of the class; before it,   *)
(* authenticate() may be called on the object up to MaxLogins times.       *)
(***************************************************************************)
\* the outcomes of the transmissions a call made
Transmitted(call, o1, o2) ==
    IF Len(call.sends) = 2 THEN <<o1, o2>>
    ELSE IF Len(call.sends) = 1 THEN <<o1>>
    ELSE <<>>

Unused == client.op \in {"none", "authenticate"}

ClientAuthenticate ==
    /\ Unused
    /\ client.calls < MaxLogins
    /\ \E env \in LoginEnvs :
          \E a \in {authenticate(client.obj, env)} :
          client' = ClientLog(a.c, client.calls + 1, "authenticate", client.obj,
                              a.accepted,
                              Call(a.c, <<>>, <<a.ok>>, a.posts,
                                   HttpRaised("none"), PyNone),
                              <<>>, NoReply)
    /\ UNCHANGED <<clock, ticks, svc, probe, cls, scan, present, sync, detect, field, traefik, race, cycle>>

ClientRequest ==
    /\ Unused
    /\ \E endpoint \in Endpoints, o1 \in RequestOutcomes, env \in RequestEnvs :
          \E o2 \in (IF o1.status = 401 THEN RetryOutcomes ELSE {o1}) :
             \E r \in {request(client.obj, endpoint, o1, o2, env)} :
             client' = ClientLog(r.c, client.calls + 1, "request", client.obj,
                                 0, r, Transmitted(r, o1, o2), NoReply)
    /\ UNCHANGED <<clock, ticks, svc, probe, cls, scan, present, sync, detect, field, traefik, race, cycle>>

Proxy ==
    /\ Unused
    /\ \E path \in {"", "api/items"}, o1 \in RequestOutcomes, env \in RequestEnvs :
          \E o2 \in (IF o1.status = 401 THEN RetryOutcomes ELSE {o1}) :
             \E p \in {generic_api_proxy(present, svc, path, o1, o2, env)} :
             client' = ClientLog(client.obj, client.calls + 1, "proxy",
                                 ProxyClient(svc), 0, p.call,
                                 Transmitted(p.call, o1, o2), p.reply)
    /\ UNCHANGED <<clock, ticks, svc, probe, cls, scan, present, sync, detect, field, traefik, race, cycle>>

\* the row of a target whose API URL and credentials an operator has stored
ConfiguredService(cfg) ==
    [NewService("https://svc.lan", "up") EXCEPT
        !.api_url = cfg.base_url, !.api_username = cfg.username,
        !.api_password = cfg.password, !.api_key = cfg.api_key]

InitClient ==
    /\ clock = 0 /\ ticks = 0
    /\ \E cfg \in ClientConfigs :
          /\ svc = ConfiguredService(cfg)
          /\ client = FreshClient(cfg)
    /\ probe = NoProbe
    /\ cls = NoClassification
    /\ scan = NoScan
    /\ present = TRUE /\ sync = NoSync
    /\ detect = NoDetect
    /\ field = NoField /\ traefik = NoTraefik /\ race = NoRace /\ cycle = NoCycle

NextClient == ClientAuthenticate \/ ClientRequest \/ Proxy

SpecClient == InitClient /\ [][NextClient]_vars

(***************************************************************************)
(* The operations that send requests: a scan of a base URL, or, on a      *)
(* stored row, health probes and proxy requests, whatever the row holds,   *)
(* and the calls on an API client, which exists only for a row that has    *)
(* its API URL stored.  A scan has its environment in the initial state.   *)
(***************************************************************************)
ScanPending == scan.env # <<>>
ClientPending == ~ScanPending /\ svc.api_url # ""

InitOperations == InitProbe \/ InitScan \/ InitClient

\* one more operation can begin: the probes and the calls of the client
\* begun so far are fewer than MaxOperations
OperationsLeft == race.ops + client.calls < MaxOperations

ProbeOperation ==
    /\ ~ScanPending
    /\ \E t \in Threads : (OperationsLeft /\ ProbeStart(t)) \/ ProbeFinish(t)
ScanOperation == ScanPending /\ Scan
AuthenticateOperation == ClientPending /\ OperationsLeft /\ ClientAuthenticate
RequestOperation == ClientPending /\ OperationsLeft /\ ClientRequest
ProxyOperation == ~ScanPending /\ OperationsLeft /\ Proxy

NextOperations ==
    \/ ProbeOperation
    \/ ScanOperation
    \/ AuthenticateOperation
    \/ RequestOperation
    \/ ProxyOperation

SpecOperations == InitOperations /\ [][NextOperations]_vars

(***************************************************************************)
(* The secret store: EncryptedTextField and EncryptedCharField.            *)
(* A Fernet token is modelled by what the fields rely on: it is text that  *)
(* starts with the signature gAAAAA, it differs from one encryption to the *)
(* next (timestamp and IV, here a nonce), it hides the plaintext (here the *)
(* plaintext reversed), and decrypt gives the plaintext back for a token   *)
(* made with the same key and raises InvalidToken for any other text.      *)
(***************************************************************************)
FernetSignature == "gAAAAA"

\* get_encryption_key(): the key of the settings
EncryptionKey == "k1"

FernetNonces == {"A", "B"}

RECURSIVE Reversed(_)
Reversed(s) ==
    IF Len(s) = 0 THEN "" ELSE Reversed(SubSeq(s, 2, Len(s))) \o SubSeq(s, 1, 1)

\* Fernet(key).encrypt(text) with the timestamp and IV of this call
FernetEncrypt(key, nonce, text) ==
    FernetSignature \o nonce \o key \o "." \o Reversed(text)

FernetHeader == Len(FernetSignature) + 1 + Len(EncryptionKey) + 1

\* token was made by FernetEncrypt with this key
FernetValid(key, token) ==
    /\ Len(token) >= FernetHeader
    /\ SubSeq(token, 1, Len(FernetSignature)) = FernetSignature
    /\ SubSeq(token, Len(FernetSignature) + 1, Len(FernetSignature) + 1) \in FernetNonces
    /\ SubSeq(token, Len(FernetSignature) + 2, FernetHeader) = key \o "."

\* Fernet(key).decrypt(token) of a valid token
FernetDecrypt(key, token) == Reversed(SubSeq(token, FernetHeader + 1, Len(token)))

\* EncryptedTextField.get_prep_value: a Python value (None or Some(text)) to
\* the value of the column
EncryptedTextField_get_prep_value(value, nonce) ==
    IF value = None \/ value = Some("") THEN value
    ELSE IF StartsWith(value[1], "gAAAAA") THEN value
    ELSE Some(FernetEncrypt(EncryptionKey, nonce, value[1]))

\* EncryptedTextField.to_python: the value of the column to a Python value
EncryptedTextField_to_python(value) ==
    IF value = None \/ value = Some("") THEN value
    ELSE IF ~StartsWith(value[1], "gAAAAA") THEN value
    ELSE IF FernetValid(EncryptionKey, value[1])
         THEN Some(FernetDecrypt(EncryptionKey, value[1]))
         ELSE Some("")

EncryptedCharField_get_prep_value(value, nonce) ==
    IF value = None \/ value = Some("") THEN value
    ELSE IF StartsWith(value[1], "gAAAAA") THEN value
    ELSE Some(FernetEncrypt(EncryptionKey, nonce, value[1]))

EncryptedCharField_to_python(value) ==
    IF value = None \/ value = Some("") THEN value
    ELSE IF ~StartsWith(value[1], "gAAAAA") THEN value
    ELSE IF FernetValid(EncryptionKey, value[1])
         THEN Some(FernetDecrypt(EncryptionKey, value[1]))
         ELSE Some("")

FieldClasses == {"EncryptedTextField", "EncryptedCharField"}

get_prep_value(class, value, nonce) ==
    IF class = "EncryptedTextField"
    THEN EncryptedTextField_get_prep_value(value, nonce)
    ELSE EncryptedCharField_get_prep_value(value, nonce)

to_python(class, value) ==
    IF class = "EncryptedTextField"
    THEN EncryptedTextField_to_python(value)
    ELSE EncryptedCharField_to_python(value)

\* from_db_value of both classes
from_db_value(class, value) == to_python(class, value)

\* the credentials an operator may store: null, the empty string, ordinary
\* secrets, and secrets whose first characters are those of a Fernet token
Secrets ==
    {None, Some(""), Some("hunter2"), Some("secret_password_123"),
     Some("p@ss word"), Some("testpass456"),
     Some("GAAAAA-upper"), Some("x-gAAAAA"),
     Some("gAAAAA"), Some("gAAAAABvendor-issued-key"),
     Some(FernetEncrypt(EncryptionKey, "A", "pw"))}

\* an attribute of a model instance: the secret assigned to it, its present
\* Python value, the column of its row (None while the instance has no row),
\* where it is in the save and reload cycle and how many times it was
\* reloaded
FieldLog(class, original, value, column, at, cycles) ==
    [class |-> class, original |-> original, value |-> value,
     column |-> column, at |-> at, cycles |-> cycles]

\* the column of a row create() stored with the secret v
StoredSecret(class, v) == get_prep_value(class, v, "A")

\* Model.save(): the column gets get_prep_value of the attribute.  The
\* columns are declared NOT NULL: with None for the attribute the INSERT or
\* UPDATE raises IntegrityError and stores nothing, a new row is not made
\* and an existing row keeps its column
FieldSave ==
    /\ field.at \in {"assigned", "loaded"}
    /\ field.cycles < MaxCycles
    /\ \E nonce \in FernetNonces :
          LET prepared == get_prep_value(field.class, field.value, nonce) IN
          field' = IF prepared = None
                   THEN [field EXCEPT !.at = "IntegrityError"]
                   ELSE [field EXCEPT !.column = prepared, !.at = "saved"]
    /\ UNCHANGED <<clock, ticks, svc, probe, cls, scan, present, sync, detect, client, traefik, race, cycle>>

\* Service.objects.get(): the attribute gets from_db_value of the column
FieldReload ==
    /\ field.at = "saved"
    /\ field' = [field EXCEPT
                    !.value = from_db_value(field.class, field.column),
                    !.at = "loaded",
                    !.cycles = field.cycles + 1]
    /\ UNCHANGED <<clock, ticks, svc, probe, cls, scan, present, sync, detect, client, traefik, race, cycle>>

InitField ==
    /\ clock = 0 /\ ticks = 0
    /\ svc = NewService("https://svc.lan", "up")
    /\ probe = NoProbe
    /\ cls = NoClassification
    /\ scan = NoScan
    /\ present = TRUE /\ sync = NoSync
    /\ detect = NoDetect /\ client = NoClient
    /\ \E class \in FieldClasses, v \in Secrets :
          \E column \in {None, StoredSecret(class, Some("test_api_key_123"))} :
             field = FieldLog(class, v, v, column, "assigned", 0)
    /\ traefik = NoTraefik /\ race = NoRace /\ cycle = NoCycle

NextField == FieldSave \/ FieldReload

SpecField == InitField /\ [][NextField]_vars

(***************************************************************************)
(* Discovery-free mode: is_traefik_configured, check_traefik_availability, *)
(* TraefikService.test_connection, the gate of sync_traefik_services and   *)
(* refresh_services.  The store holds the row of the Traefik target (svc,  *)
(* when present) and one row an operator added by hand (traefik.manual).   *)
(***************************************************************************)
TraefikPlaceholder == "http://traefik:8080/api"

\* the TRAEFIK_API_URL setting: unset, empty, the placeholder, or the URL of
\* a Traefik instance
TraefikUrls ==
    {None, Some(""), Some(TraefikPlaceholder), Some("http://traefik.lan:8080/api/")}

\* variant: every non-empty URL counts as configured
is_traefik_configured_any_url(api_url) ==
    api_url # None /\ api_url # Some("")

is_traefik_configured(api_url) ==
    IF api_url = None \/ api_url = Some("") THEN FALSE
    ELSE IF api_url[1] \in {"http://traefik:8080/api", ""} THEN FALSE
    ELSE TRUE

\* what a GET on the Traefik API gives: a response with its status and the
\* value of its JSON body ("dict", "null", or the list of routers), or an
\* exception of requests
TraefikResponse(status, json) == [kind |-> "response", status |-> status, json |-> json]
TraefikRaised(kind) == [kind |-> kind, status |-> 0, json |-> "none"]

\* response.raise_for_status() raises
TraefikHttpError(o) == o.kind = "response" /\ o.status >= 400

\* the request was answered without an error
TraefikAnswered(o) == o.kind = "response" /\ ~TraefikHttpError(o)

\* f"{api_url.rstrip('/')}/{endpoint}"
TraefikUrlOf(api_url, endpoint) == RStripSlash(api_url[1]) \o "/" \o endpoint

\* check_traefik_availability: the verdict and the requests sent
check_traefik_availability(api_url, o) ==
    IF ~is_traefik_configured(api_url)
    THEN [ok |-> FALSE, gets |-> <<>>, answered |-> <<>>]
    ELSE [ok |-> TraefikAnswered(o),
          gets |-> <<TraefikUrlOf(api_url, "version")>>,
          answered |-> <<TraefikAnswered(o)>>]

\* TraefikService._make_request: the value of response.json(), None for a
\* JSON null and after a RequestException (raise_for_status included)
make_request(o) ==
    IF TraefikAnswered(o) /\ o.json # "null" THEN Some(o.json) ELSE None

\* TraefikService.test_connection
test_connection(o) == make_request(o) # None

\* TraefikService.get_routers and discover_services: the targets found
discover_services(o) ==
    LET data == make_request(o) IN
    IF data = None \/ data = Some("dict") THEN <<>>
    ELSE data[1]

\* what the Traefik API answers to the requests of one operation: the
\* version request of refresh_services, the version request of
\* sync_traefik_services, overview and http/routers
TraefikEnv(version1, version2, overview, routers) ==
    [version1 |-> version1, version2 |-> version2,
     overview |-> overview, routers |-> routers]

TraefikUp == TraefikResponse(200, "dict")
TraefikDown == TraefikRaised("ConnectionError")
OneRouter == TraefikResponse(200, <<[status |-> "up", url |-> "https://svc.lan"]>>)
DisabledRouter == TraefikResponse(200, <<[status |-> "unknown", url |-> "https://svc.lan"]>>)
NoRouters == TraefikResponse(200, <<>>)

TraefikEnvs ==
    {TraefikEnv(TraefikUp, TraefikUp, TraefikUp, OneRouter),
     TraefikEnv(TraefikUp, TraefikUp, TraefikUp, DisabledRouter),
     TraefikEnv(TraefikUp, TraefikUp, TraefikUp, NoRouters),
     TraefikEnv(TraefikDown, TraefikDown, TraefikDown, TraefikDown),
     TraefikEnv(TraefikRaised("ReadTimeout"), TraefikRaised("ReadTimeout"),
                TraefikRaised("ReadTimeout"), TraefikRaised("ReadTimeout")),
     TraefikEnv(TraefikResponse(503, "dict"), TraefikResponse(503, "dict"),
                TraefikUp, OneRouter),
     TraefikEnv(TraefikUp, TraefikDown, TraefikUp, OneRouter),
     TraefikEnv(TraefikUp, TraefikUp, TraefikResponse(401, "dict"), OneRouter),
     TraefikEnv(TraefikUp, TraefikUp, TraefikResponse(200, "null"), OneRouter),
     TraefikEnv(TraefikUp, TraefikUp, TraefikUp, TraefikResponse(500, "dict"))}

\* the store: the rows of Service.objects.all()
Store(target, row, manual) == IF target THEN <<row, manual>> ELSE <<manual>>

\* sync_traefik_services up to its loop: the requests sent to Traefik, which
\* of them were answered, and the services discovered (none when the
\* function returns 0 before the loop)
sync_traefik_services(api_url, env) ==
    LET a == check_traefik_availability(api_url, env.version2) IN
    IF ~a.ok
    THEN [discovered |-> <<>>, gets |-> a.gets, answered |-> a.answered]
    ELSE IF ~test_connection(env.overview)
    THEN [discovered |-> <<>>,
          gets |-> a.gets \o <<TraefikUrlOf(api_url, "overview")>>,
          answered |-> a.answered \o <<TraefikAnswered(env.overview)>>]
    ELSE [discovered |-> discover_services(env.routers),
          gets |-> a.gets \o <<TraefikUrlOf(api_url, "overview"),
                               TraefikUrlOf(api_url, "http/routers")>>,
          answered |-> a.answered \o <<TRUE, TraefikAnswered(env.routers)>>]

\* refresh_services up to the loop of the sync it may call: its verdicts on
\* Traefik and what the sync it calls when Traefik is available reached
refresh_services(api_url, env) ==
    LET configured == is_traefik_configured(api_url)
        a == IF configured THEN check_traefik_availability(api_url, env.version1)
             ELSE [ok |-> FALSE, gets |-> <<>>, answered |-> <<>>]
        s == IF a.ok THEN sync_traefik_services(api_url, env)
             ELSE [discovered |-> <<>>, gets |-> <<>>, answered |-> <<>>]
    IN [configured |-> configured, available |-> a.ok,
        discovered |-> s.discovered,
        gets |-> a.gets \o s.gets, answered |-> a.answered \o s.answered]

\* the outcomes of the health probes of a refresh: both requests of a probe
\* get the same outcome
RefreshProbes == {Response(200), Response(503), Raised("ConnectionError")}
RefreshMs == 120

\* the rows of the store now
StoredNow == Store(present, svc, traefik.manual)

\* the JSON reply of refresh_services after its loop of health checks
RefreshReply(c) ==
    [status |-> 200, success |-> TRUE, synced_services |-> c.ret,
     health_checks |-> c.pos, traefik_configured |-> c.configured,
     traefik_available |-> c.available]

\* the first iteration of the loop of sync_traefik_services up to the scan:
\* the row of the router is read and should_detect is decided
SyncRead(c, data) ==
    [c EXCEPT !.pc = "scanning", !.data = data, !.existing = RouterRow,
              !.obj = IF RouterRow THEN svc ELSE NewService("", "unknown"),
              !.should_detect = ShouldDetect(RouterRow, svc, c.force, clock)]

\* "services = Service.objects.all()" and "for service in services": the
\* rows are loaded, all at once, and check_health sends the GET of the first
\* one; without rows the view answers
HealthLoop(c, rows) ==
    IF rows = <<>>
    THEN [c EXCEPT !.pc = "done", !.reply = RefreshReply(c)]
    ELSE [c EXCEPT !.pc = "probing", !.rows = rows]

\* a sync_traefik_services that has reached its loop goes into it; one
\* that has not returns 0, and refresh_services goes on to its health loop
AfterGets(c, discovered) ==
    IF discovered # <<>> THEN SyncRead(c, discovered[1])
    ELSE IF c.op = "sync" THEN [c EXCEPT !.pc = "done"]
    ELSE HealthLoop(c, StoredNow)

\* the call in slot k has taken a step and is now as c says; of the other
\* calls, those that had returned are forgotten
CallStep(k, c) ==
    [traefik EXCEPT
        !.last = k,
        !.run = [j \in CallSlots |->
                    IF j = k THEN c
                    ELSE IF traefik.run[j].pc = "done" THEN NoTraefikCall
                    ELSE traefik.run[j]]]

\* a call begins in the next slot
CallBegin(c) ==
    [CallStep(traefik.calls + 1, c) EXCEPT !.calls = traefik.calls + 1]

\* a direct call of sync_traefik_services (management command,
\* periodic_sync) begins, whatever other call is going on: the requests to
\* Traefik, and the read of the row when a service was discovered
SyncTraefik ==
    /\ traefik.calls < MaxRefreshes
    /\ \E force \in BOOLEAN, env \in TraefikEnvs :
          \E s \in {sync_traefik_services(traefik.api_url, env)} :
             traefik' = CallBegin(AfterGets([NoTraefikCall EXCEPT
                                              !.op = "sync", !.force = force,
                                              !.before = StoredNow,
                                              !.gets = s.gets,
                                               !.answered = s.answered],
                                           s.discovered))
    /\ UNCHANGED <<clock, ticks, svc, probe, cls, scan, present, sync, detect, client, field, race, cycle>>

\* POST /api/services/refresh/ begins, whatever other call is going on: the
\* requests to Traefik, then the read of the row by the sync phase when a
\* service was discovered, else the start of the health loop
Refresh ==
    /\ traefik.calls < MaxRefreshes
    /\ \E env \in TraefikEnvs :
          \E r \in {refresh_services(traefik.api_url, env)} :
             traefik' = CallBegin(AfterGets([NoTraefikCall EXCEPT
                                              !.op = "refresh",
                                              !.before = StoredNow,
                                              !.gets = r.gets,
                                              !.answered = r.answered,
                                              !.configured = r.configured,
                                              !.available = r.available],
                                          r.discovered))
    /\ UNCHANGED <<clock, ticks, svc, probe, cls, scan, present, sync, detect, client, field, race, cycle>>

\* the rest of the iteration of the sync loop: the scan when it is due, the
\* defaults computed from the row read, update_or_create on the row as it
\* is now, with the time of now; the function returns 1.  After it
\* refresh_services loads the rows for its health loop
SyncTraefikFinish(k) ==
    /\ traefik.run[k].pc = "scanning"
    /\ \E denv \in DetectEnvs :
          LET c == traefik.run[k]
              d == DetectionStep(c.existing, c.obj, c.should_detect, c.data,
                                 denv, clock)
              row == update_or_create(RouterRow, svc,
                         Defaults(c.existing, c.obj, c.data, d, clock))
              c1 == [c EXCEPT !.ret = 1, !.wrote = <<row>>]
          IN /\ svc' = row
             /\ traefik' = CallStep(k, IF c.op = "sync"
                                       THEN [c1 EXCEPT !.pc = "done"]
                                       ELSE HealthLoop(c1, Store(TRUE, row,
                                                                traefik.manual)))
    /\ present' = TRUE
    /\ UNCHANGED <<clock, ticks, probe, cls, scan, sync, detect, client, field, race, cycle>>

\* one iteration of the health loop of refresh_services is over: the GETs
\* of check_health were answered, the verdict is written on the instance
\* loaded at the start of the loop and self.save() stores it with the time
\* of now; the next row's GET is sent, or the view answers
RefreshProbe(k) ==
    /\ traefik.run[k].pc = "probing"
    /\ \E o \in RefreshProbes :
          LET c == traefik.run[k]
              s == c.rows[c.pos + 1]
              r == check_health(s, o, RefreshMs, o, RefreshMs, clock)
              c1 == [c EXCEPT !.pos = @ + 1, !.saved = r.obj,
                              !.requests = r.requests, !.at = clock]
              c2 == IF c1.pos = Len(c.rows)
                    THEN [c1 EXCEPT !.pc = "done", !.reply = RefreshReply(c1)]
                    ELSE c1
          IN IF s.is_manual
             THEN /\ traefik' = [CallStep(k, c2) EXCEPT !.manual = Save(@, r.obj)]
                  /\ UNCHANGED <<svc, present>>
             ELSE /\ traefik' = CallStep(k, c2)
                  /\ svc' = Save(svc, r.obj)
                  /\ present' = TRUE
    /\ UNCHANGED <<clock, ticks, probe, cls, scan, sync, detect, client, field, race, cycle>>

\* the clock of a refresh
RefreshTick == ticks < MaxRefreshTicks /\ Tick

InitRefresh ==
    /\ clock = 0 /\ ticks = 0
    /\ \/ present = FALSE /\ svc = NewService("", "unknown")
       \/ present = TRUE /\ svc = NewService("https://svc.lan", "up")
    /\ probe = NoProbe
    /\ cls = NoClassification
    /\ scan = NoScan
    /\ sync = NoSync
    /\ detect = NoDetect /\ client = NoClient
    /\ field = NoField
    /\ \E u \in TraefikUrls : traefik = [NoTraefik EXCEPT !.api_url = u]
    /\ race = NoRace /\ cycle = NoCycle

NextRefresh ==
    \/ RefreshTick
    \/ SyncTraefik
    \/ Refresh
    \/ \E k \in CallSlots : SyncTraefikFinish(k)
    \/ \E k \in CallSlots : RefreshProbe(k)

SpecRefresh == InitRefresh /\ [][NextRefresh]_vars

(***************************************************************************)
(* The operations on one stored target together: health probes, the edit   *)
(* of a row made by hand, credential updates, detections on demand and     *)
(* sync cycles, MaxRaceOps of them.                                        *)
(***************************************************************************)
\* the threads inside check_health on the target
Outstanding == {t \in Threads : race.threads[t].pc = "probing"}

\* one more operation can begin
MoreOps == race.ops < MaxRaceOps

RaceProbe(t) == MoreOps /\ ProbeStart(t)
RaceProbeFinish(t) ==
    /\ race.threads[t].pc = "probing"
    /\ ProbeEnd(t, RefreshProbes, {RefreshMs})
RaceUpdateService(t) == MoreOps /\ UpdateService(t)
RaceCredentials == MoreOps /\ UpdateCredentials
RaceDetect(t) == MoreOps /\ DetectStart(t)
RaceSync(t) == MoreOps /\ SyncStart(t)

\* the target is stored, made by a sync cycle or by hand; no thread is
\* inside an operation
InitRace ==
    /\ clock = 0 /\ ticks = 0
    /\ svc \in {NewService("https://svc.lan", "unknown"), HandMade}
    /\ present = TRUE
    /\ probe = NoProbe
    /\ cls = NoClassification
    /\ scan = NoScan
    /\ sync = NoSync
    /\ detect = NoDetect /\ client = NoClient
    /\ field = NoField /\ traefik = NoTraefik /\ race = NoRace /\ cycle = NoCycle

NextRace ==
    \/ Tick
    \/ \E t \in Threads : RaceProbe(t)
    \/ \E t \in Threads : RaceProbeFinish(t)
    \/ \E t \in Threads : RaceUpdateService(t)
    \/ RaceCredentials
    \/ \E t \in Threads : RaceDetect(t)
    \/ \E t \in Threads : DetectFinish(t)
    \/ \E t \in Threads : RaceSync(t)
    \/ \E t \in Threads : SyncFinish(t)

SpecRace == InitRace /\ [][NextRace]_vars

(***************************************************************************)
(* The loops over the targets and the exceptions raised inside them:       *)
(* check_all_services_health and refresh_services call check_health on     *)
(* every row, sync_traefik_services handles every discovered service, and  *)
(* periodic_sync calls sync_traefik_services for ever.  Each loop runs in  *)
(* a thread of its own and nothing keeps two of them from running at the   *)
(* same time.  The admin action loops over the rows without a try.         *)
(***************************************************************************)
\* variant: the body of the loop without its try statement, an exception
\* leaves the loop
IterateUnguarded(c, raised) ==
    LET t == Targets[c.pos + 1] IN
    IF raised
    THEN [c EXCEPT !.failed = @ \cup {t}, !.running = FALSE]
    ELSE [c EXCEPT !.pos = @ + 1, !.done = @ \cup {t}, !.count = @ + 1]

\* one iteration "try: ... except Exception as e: logger.error(...)": the
\* target is handled and counted, or its exception is logged; the loop goes
\* on with the next target
Iterate(c, raised) ==
    LET t == Targets[c.pos + 1] IN
    IF raised
    THEN [c EXCEPT !.pos = @ + 1, !.failed = @ \cup {t}]
    ELSE [c EXCEPT !.pos = @ + 1, !.done = @ \cup {t}, !.count = @ + 1]

\* one iteration of "for service in queryset: service.check_health()" in
\* the admin action: there is no try statement, an exception leaves the
\* action and the rows after the target are not probed
AdminIterate(c, raised) ==
    LET t == Targets[c.pos + 1] IN
    IF raised
    THEN [c EXCEPT !.failed = @ \cup {t}, !.running = FALSE, !.aborted = TRUE]
    ELSE [c EXCEPT !.pos = @ + 1, !.done = @ \cup {t}, !.count = @ + 1]

\* the body of "while True" in periodic_sync after the call in slot k of
\* sync_traefik_services returned or raised: "except Exception as e:
\* logger.error(...)", the loop sleeps and calls again
periodic_sync(cy, k, raised) ==
    [cy EXCEPT !.runs[k].running = FALSE, !.runs[k].aborted = raised,
               !.ticks = @ + 1]

\* a loop begins in the next slot
LoopBegun(l, via) ==
    [cycle EXCEPT !.loops = @ + 1,
                  !.runs[cycle.loops + 1] =
                      [NoLoop EXCEPT !.loop = l, !.via = via, !.running = TRUE]]

\* a dashboard page load starts the thread of check_all_services_health, or
\* a refresh request whose sync phase wrote nothing reaches its loop of
\* health checks, whatever other loops are running
HealthLoopStart ==
    /\ cycle.loops < MaxLoops
    /\ \E l \in Loops \ {"sync_traefik_services"} : cycle' = LoopBegun(l, l)
    /\ UNCHANGED <<clock, ticks, svc, probe, cls, scan, present, sync, detect,
                   client, field, traefik, race>>

\* an operator runs the admin action on the rows, whatever other loops are
\* running
AdminCheckHealth ==
    /\ cycle.loops < MaxLoops
    /\ cycle' = LoopBegun(AdminLoop, AdminLoop)
    /\ UNCHANGED <<clock, ticks, svc, probe, cls, scan, present, sync, detect,
                   client, field, traefik, race>>

\* the thread of periodic_sync is inside a call of sync_traefik_services
InPeriodicSync ==
    \E k \in LoopSlots :
       cycle.runs[k].running /\ cycle.runs[k].via = "periodic_sync"

\* periodic_sync wakes up, whatever other loops are running, and calls
\* sync_traefik_services, which reaches its loop over the discovered
\* services or raises before it
PeriodicTick ==
    /\ ~InPeriodicSync
    /\ cycle.alive
    /\ cycle.loops < MaxLoops
    /\ \E raised \in BOOLEAN :
          LET c == LoopBegun("sync_traefik_services", "periodic_sync") IN
          cycle' = IF raised THEN periodic_sync(c, cycle.loops + 1, TRUE) ELSE c
    /\ UNCHANGED <<clock, ticks, svc, probe, cls, scan, present, sync, detect,
                   client, field, traefik, race>>

\* refresh_services or the sync_services command calls
\* sync_traefik_services, whatever other loops are running; the call
\* reaches its loop or raises before it, and then the except clause of the
\* caller ends the request or the command
SyncCall ==
    /\ cycle.loops < MaxLoops
    /\ \E via \in SyncCallers \ {"periodic_sync"}, raised \in BOOLEAN :
          LET c == LoopBegun("sync_traefik_services", via) IN
          cycle' = IF raised
                   THEN [c EXCEPT !.runs[cycle.loops + 1].running = FALSE,
                                  !.runs[cycle.loops + 1].aborted = TRUE]
                   ELSE c
    /\ UNCHANGED <<clock, ticks, svc, probe, cls, scan, present, sync, detect,
                   client, field, traefik, race>>

\* one target of the running loop in slot k: check_health, or the sync of
\* one discovered service, returns or raises
LoopIteration(k) ==
    /\ cycle.runs[k].running
    /\ cycle.runs[k].pos < Len(Targets)
    /\ \E raised \in BOOLEAN :
          cycle' = [cycle EXCEPT
                       !.runs[k] = IF @.loop = AdminLoop
                                   THEN AdminIterate(@, raised)
                                   ELSE Iterate(@, raised)]
    /\ UNCHANGED <<clock, ticks, svc, probe, cls, scan, present, sync, detect,
                   client, field, traefik, race>>

\* the loop in slot k is over: the function returns its count; the
\* periodic thread goes back to sleep; refresh_services goes on from its
\* sync phase to its loop of health checks
LoopEnd(k) ==
    /\ cycle.runs[k].running
    /\ cycle.runs[k].pos = Len(Targets)
    /\ cycle' = IF cycle.runs[k].via = "periodic_sync"
                THEN periodic_sync(cycle, k, FALSE)
                ELSE IF /\ cycle.runs[k].loop = "sync_traefik_services"
                        /\ cycle.runs[k].via = "refresh_services"
                THEN [cycle EXCEPT
                         !.runs[k] = [NoLoop EXCEPT !.loop = "refresh_services",
                                                    !.via = "refresh_services",
                                                    !.running = TRUE]]
                ELSE [cycle EXCEPT !.runs[k].running = FALSE]
    /\ UNCHANGED <<clock, ticks, svc, probe, cls, scan, present, sync, detect,
                   client, field, traefik, race>>

InitCycle ==
    /\ clock = 0 /\ ticks = 0
    /\ svc = NewService("", "unknown")
    /\ present = FALSE
    /\ probe = NoProbe
    /\ cls = NoClassification
    /\ scan = NoScan
    /\ sync = NoSync
    /\ detect = NoDetect /\ client = NoClient
    /\ field = NoField /\ traefik = NoTraefik /\ race = NoRace
    /\ cycle = NoCycle

NextCycle ==
    \/ HealthLoopStart
    \/ AdminCheckHealth
    \/ PeriodicTick
    \/ SyncCall
    \/ \E k \in LoopSlots : LoopIteration(k)
    \/ \E k \in LoopSlots : LoopEnd(k)

SpecCycle == InitCycle /\ [][NextCycle]_vars

(***************************************************************************)
(* Claims about the classifier and the prober.                             *)
(***************************************************************************)
UpCodes == (200..399) \cup {401, 403, 405}

\* C1: is_service_up maps a status code to up exactly when the code is in
\* 200-399 or is 401, 403 or 405, and to down for every other code.
C1_ClassifierUpExactly ==
    cls.verdict # "unset" =>
        /\ cls.verdict \in {"up", "down"}
        /\ cls.verdict = "up" <=> cls.code \in UpCodes

C1_Witness == cls.code = 405 /\ cls.verdict = "up"

ProbeFirst == probe.outcomes[1]
ProbeLast == probe.outcomes[Len(probe.outcomes)]

\* C2: when the primary GET raises a timeout (a connect timeout included),
\* check_health ends with status down and response_time null, sends no
\* further request and leaves the stored URL unchanged.
C2_TimeoutIsDownWithoutFallback ==
    (probe.called /\ ProbeFirst.kind \in {"ConnectTimeout", "ReadTimeout"}) =>
        /\ probe.saved.status = "down"
        /\ probe.ret = "down"
        /\ probe.saved.response_time = None
        /\ probe.requests = <<Get(probe.start_url, TRUE)>>
        /\ probe.saved.url = probe.start_url

C2_Witness ==
    /\ probe.called
    /\ ProbeFirst.kind = "ConnectTimeout"
    /\ StartsWith(probe.start_url, "https://")
    /\ probe.old_status = "up"
    /\ probe.saved.status = "down"

\* the primary GET raised a connection-level error that is neither a TLS
\* error nor a timeout, the URL was https and the plaintext retry answered
\* with an up-classified status
RewriteCase ==
    /\ ProbeFirst.kind = "ConnectionError"
    /\ StartsWith(probe.start_url, "https://")
    /\ Len(probe.outcomes) = 2
    /\ ProbeLast.kind = "response"
    /\ ProbeLast.status \in UpCodes

\* C3: a probe rewrites the stored URL from https:// to http:// if and only
\* if the primary GET raised a connection-level error (not TLS, not a
\* timeout), the scheme was https and the plaintext retry completed with an
\* up-classified status; then the verdict is up; otherwise the URL is kept.
C3_RewriteExactlyOnPlaintextSuccess ==
    probe.called =>
        /\ probe.saved.url # probe.start_url <=> RewriteCase
        /\ RewriteCase =>
              /\ probe.saved.url = "http://" \o SubSeq(probe.start_url, 9, Len(probe.start_url))
              /\ probe.saved.status = "up"

C3_Witness ==
    /\ probe.called
    /\ probe.start_url = "https://svc.lan"
    /\ probe.saved.url = "http://svc.lan"
    /\ probe.saved.status = "up"

\* C4: a probe writes status_changed_at if and only if its verdict differs
\* from the status held immediately before it (the first probe from unknown
\* counts as a change); a probe that repeats the verdict leaves it alone.
\* The status held before the probe is the status of the instance the
\* probe loaded, and what the probe writes is the instance it saves.
C4_StatusChangedAtOnlyOnTransition ==
    probe.called =>
        /\ probe.saved.status # probe.loaded.status =>
               probe.saved.status_changed_at = Some(probe.now)
        /\ probe.saved.status = probe.loaded.status =>
               probe.saved.status_changed_at = probe.loaded.status_changed_at
        /\ probe.loaded.status = "unknown" =>
               probe.saved.status_changed_at = Some(probe.now)

C4_Witness ==
    /\ probe.called
    /\ probe.old_status = "up"
    /\ probe.saved.status = "up"
    /\ probe.saved.last_checked = Some(clock)
    /\ probe.saved.status_changed_at # None
    /\ probe.saved.status_changed_at # probe.saved.last_checked
    /\ probe.saved.response_time = Some(120)

\* C5: after every probe response_time is non-null only if an HTTP exchange
\* completed during that probe, and status up implies a non-null
\* response_time; a probe that ends in a timeout, a connection failure or
\* another exception leaves it null, whatever an earlier probe stored.
C5_ResponseTimeOnlyFromCompletedExchange ==
    probe.called =>
        /\ probe.saved.response_time # None => ProbeLast.kind = "response"
        /\ probe.saved.status = "up" => probe.saved.response_time # None
        /\ ProbeLast.kind # "response" => probe.saved.response_time = None

C5_Witness ==
    /\ probe.called
    /\ probe.old_status = "up"
    /\ ProbeLast.kind = "ConnectionError"
    /\ probe.loaded.response_time = Some(120)
    /\ probe.saved.response_time = None

\* C6: every call of check_health ends with status up or down (never
\* unknown), sets last_checked to the current time, saves the row and
\* returns the new status.
C6_ProbeAlwaysConcludes ==
    probe.called =>
        /\ probe.saved.status \in {"up", "down"}
        /\ probe.saved.last_checked = Some(probe.now)
        /\ probe.ret = probe.saved.status
        /\ race.last = "save" => (present /\ svc = probe.saved)

C6_Witness ==
    /\ probe.called
    /\ ProbeFirst.kind = "ValueError"
    /\ probe.now > 0
    /\ probe.saved.last_checked = Some(probe.now)
    /\ probe.saved.status = "down"
    /\ race.last = "save" /\ svc = probe.saved

(***************************************************************************)
(* Claims about the scanner.                                               *)
(***************************************************************************)
ScanSent == Len(scan.result.requests)
ScanAccepts(i) == TryEndpoint(COMMON_ENDPOINTS[i], scan.env[i]) = "accept"
ScanSwallows(i) ==
    scan.env[i].kind \in {"SSLError", "ConnectTimeout", "ReadTimeout",
                          "ConnectionError", "TooManyRedirects"}
ScanStrippedBase ==
    IF scan.base_url = "https://svc.lan/" THEN "https://svc.lan" ELSE scan.base_url

\* C7: probe_api_endpoints visits the candidates in list order with one GET
\* each, treats a timeout, connection error or other request error of a
\* candidate as not accepted and goes on, returns (true, path) for the first
\* accepted candidate without requesting a later one, and returns
\* (false, null) only after every candidate has been tried.
C7_FirstAcceptedCandidateWins ==
    scan.done =>
        /\ ScanSent \in Candidates
        /\ \A j \in 1..ScanSent :
              scan.result.requests[j].url = ScanStrippedBase \o COMMON_ENDPOINTS[j]
        /\ \A j \in 1..(ScanSent - 1) : ~ScanAccepts(j)
        /\ \A j \in 1..ScanSent :
              ScanSwallows(j) =>
                  \/ j < ScanSent
                  \/ j = Len(COMMON_ENDPOINTS) /\ ~scan.result.found /\ ~scan.result.raised
        /\ scan.result.found <=> ScanAccepts(ScanSent)
        /\ scan.result.found => scan.result.endpoint = Some(COMMON_ENDPOINTS[ScanSent])
        /\ (~scan.result.found /\ ~scan.result.raised) =>
              /\ scan.result.endpoint = None
              /\ ScanSent = Len(COMMON_ENDPOINTS)
              /\ \A j \in Candidates : ~ScanAccepts(j)

C7_Witness ==
    /\ scan.done
    /\ scan.result.found
    /\ scan.result.endpoint = Some("/api/v2")
    /\ scan.env[1].kind = "ReadTimeout"
    /\ scan.env[2].kind = "ReadTimeout"
    /\ scan.env[3] = ScanResponse(200, "application/json")
    /\ scan.env[4] = ScanResponse(200, "application/json")
    /\ ScanSent = 3

DeclaresJson(ct) == ct \in {"application/json", "application/json; charset=utf-8"}

\* C8: a candidate that is not a documentation path is accepted exactly
\* when its response status is 401, or its status is 200 or 403 and the
\* Content-Type declares JSON; any other status (3xx included) is never
\* accepted.  A requested candidate was accepted when the scan ended at it
\* with found = true.
C8_AcceptanceOfPlainCandidates ==
    scan.done =>
        \A j \in 1..ScanSent :
            (/\ COMMON_ENDPOINTS[j] \notin {"/docs", "/swagger", "/api-docs"}
             /\ scan.env[j].kind = "response") =>
                ((scan.result.found /\ j = ScanSent) <=>
                    \/ scan.env[j].status = 401
                    \/ /\ scan.env[j].status \in {200, 403}
                       /\ DeclaresJson(scan.env[j].content_type))

C8_Witness ==
    /\ scan.done
    /\ scan.env[1] = ScanResponse(404, "text/html; charset=utf-8")
    /\ scan.env[3] = ScanResponse(401, "text/plain")
    /\ scan.result.found
    /\ scan.result.endpoint = Some("/api/v2")

(***************************************************************************)
(* Claims about the detection scheduler.                                   *)
(***************************************************************************)
SyncRan == sync.outcome \notin {"none", "unavailable"}

\* C9: with force = true the detection-eligibility decision of a sync cycle
\* is true for every target, whatever its detection_attempts, next_check,
\* api_detected and api_last_detected: in every reachable state a forced
\* decision is true, and every forced cycle that ran decided true.
C9_ForceAlwaysDetects ==
    /\ ShouldDetect(present, svc, TRUE, clock)
    /\ (SyncRan /\ sync.force) => sync.should_detect

\* a forced cycle scanned a target that was inside its throttle window: all
\* six failures happened at time 0, the sixth with next_check 5 minutes ahead
C9_Witness ==
    /\ clock = 0
    /\ sync.force
    /\ sync.should_detect
    /\ sync.outcome = "notfound"
    /\ svc.api_detected = FALSE
    /\ svc.api_detection_attempts = 6
    /\ svc.api_next_check = Some(5)

\* the last successful detection is more than 7 days old
Stale ==
    /\ svc.api_last_detected # None
    /\ Days(clock - svc.api_last_detected[1]) > RedetectDays

\* C10: for a non-forced decision on a target with detection_attempts >= 5,
\* detection is not due while now < next_check and is due once
\* now >= next_check, in every state reachable through sync cycles and
\* detections on demand.  The re-detection after 7 days is a rule of its
\* own and is left out here: the statement is about the targets whose last
\* successful detection is not that old.
C10_ThrottleGateDecides ==
    (/\ present
     /\ svc.api_detection_attempts >= ThrottleAttempts
     /\ svc.api_next_check # None
     /\ ~Stale) =>
        (ShouldDetect(present, svc, FALSE, clock) <=> clock >= svc.api_next_check[1])

\* C12: whenever a detection of a target succeeds, in a sync cycle or through
\* the detect-api endpoint, the stored row afterwards has
\* api_detection_attempts = 0 and api_next_check = None.
C12_SuccessResetsThrottle ==
    /\ sync.outcome = "found" =>
          /\ sync.stored.api_detection_attempts = 0
          /\ sync.stored.api_next_check = None
    /\ detect.outcome = "found" =>
          /\ detect.saved.api_detection_attempts = 0
          /\ detect.saved.api_next_check = None

\* C13: a sync cycle whose detection fails (no candidate accepted) or errors
\* increases the stored api_detection_attempts by exactly 1, also in the
\* cycle that creates the row; a cycle that skips detection leaves the
\* counter as it was.  The counter before the cycle's write is the one of
\* the row the write found in the store (0 when it found none).
C13_FailureCountsOnce ==
    /\ sync.outcome \in {"notfound", "raised"} =>
          sync.stored.api_detection_attempts = sync.before.api_detection_attempts + 1
    /\ sync.outcome = "skipped" =>
          sync.stored.api_detection_attempts = sync.before.api_detection_attempts

(***************************************************************************)
(* Claims about the API client.                                            *)
(***************************************************************************)
\* the last call was a request() that ran (the proxy answers 400 without
\* making one when the row or the path is incomplete, and 404 when there
\* is no row)
RequestRan ==
    \/ client.op = "request"
    \/ client.op = "proxy" /\ client.reply.status \notin {400, 404}

\* the client the call was made on held neither a token nor a cookie, so
\* request() authenticated before the first transmission
AuthenticatedFirst == client.before.token = "" /\ client.before.cookies = {}

Is401(o) == o.kind = "response" /\ o.status = 401

\* the authenticate() calls of the request made after its first transmission
AuthsAfterFirstSend ==
    IF Len(client.call.sends) = 0 THEN <<>>
    ELSE IF AuthenticatedFirst
         THEN SubSeq(client.call.auths, 2, Len(client.call.auths))
         ELSE client.call.auths

\* C11: within one request() call a 401 response triggers authenticate()
\* exactly once and, if that succeeds, exactly one retransmission of the
\* same request; without a 401 nothing is authenticated again or sent again;
\* a 401 on the retransmission is raised to the caller; the request is never
\* sent a third time.
C11_ReauthenticateOnceRetryOnce ==
    RequestRan =>
        /\ Len(client.call.sends) <= 2
        /\ Len(client.outcomes) >= 1 =>
              IF Is401(client.outcomes[1])
              THEN /\ Len(AuthsAfterFirstSend) = 1
                   /\ AuthsAfterFirstSend[1] =>
                         /\ Len(client.call.sends) = 2
                         /\ client.call.sends[2].url = client.call.sends[1].url
                   /\ ~AuthsAfterFirstSend[1] => Len(client.call.sends) = 1
              ELSE /\ Len(AuthsAfterFirstSend) = 0
                   /\ Len(client.call.sends) = 1
        /\ (Len(client.outcomes) = 2 /\ Is401(client.outcomes[2])) =>
              client.call.ret.kind = "raise"

\* a request on a fresh client: the login succeeds, the request is answered
\* 401, the login succeeds again, the retransmission is answered 401 and the
\* call raises
C11_Witness ==
    /\ client.op = "request"
    /\ AuthenticatedFirst
    /\ client.call.auths = <<TRUE, TRUE>>
    /\ Len(client.call.posts) = 2
    /\ Len(client.call.sends) = 2
    /\ Is401(client.outcomes[1]) /\ Is401(client.outcomes[2])
    /\ client.call.ret = RaisedException("HTTP error 401: unauthorized")

\* the last call was authenticate()
Authenticated == client.op = "authenticate"

\* C14: authenticate() sends requests only when no API key is configured and
\* both the username and the password are present.  With an API key it
\* returns true without a request and the key is attached as the X-API-Key
\* header, also when a username and a password are configured; without a
\* key and with the username or the password missing it returns false
\* without a request.
C14_AuthenticateShortCircuits ==
    Authenticated =>
        /\ client.before.api_key # "" =>
              /\ client.call.auths = <<TRUE>>
              /\ client.call.posts = <<>>
              /\ client.obj.headers.X_API_Key = client.before.api_key
        /\ (client.before.api_key = ""
            /\ (client.before.username = "" \/ client.before.password = "")) =>
              /\ client.call.auths = <<FALSE>>
              /\ client.call.posts = <<>>
        /\ client.call.posts # <<>> =>
              /\ client.before.api_key = ""
              /\ client.before.username # ""
              /\ client.before.password # ""

\* authenticate() on a client with an API key, a username and a password
C14_Witness ==
    /\ Authenticated
    /\ client.before.api_key = "k-123"
    /\ client.before.username = "admin" /\ client.before.password = "secret"
    /\ client.call.auths = <<TRUE>>
    /\ client.call.posts = <<>>
    /\ client.obj.headers.X_API_Key = "k-123"
    /\ client.obj.auth_method = "api_key"

\* the last call was an authenticate() that had to try the login matrix
Walked ==
    /\ Authenticated
    /\ client.before.api_key = ""
    /\ client.before.username # "" /\ client.before.password # ""

\* the endpoints in their priority order: the configured one alone, else
\* the common ones
ExpectedEndpoints ==
    IF client.before.auth_endpoint # ""
    THEN <<client.before.auth_endpoint>>
    ELSE common_endpoints

ExpectedEncodings == <<"json", "form", "basic">>

\* the POSTs went endpoint by endpoint and, for each endpoint, encoding by
\* encoding; the walk ended with the accepted cell, or after the whole matrix
WalkedInOrder ==
    /\ \A i \in 1..Len(client.call.posts) :
          /\ client.call.posts[i].url =
                client.before.base_url \o ExpectedEndpoints[((i - 1) \div 3) + 1]
          /\ client.call.posts[i].method_type = ExpectedEncodings[((i - 1) % 3) + 1]
    /\ client.call.auths = <<TRUE>> =>
          /\ client.accepted >= 1
          /\ client.accepted = Len(client.call.posts)
    /\ client.call.auths = <<FALSE>> =>
          /\ client.accepted = 0
          /\ Len(client.call.posts) = 3 * Len(ExpectedEndpoints)

AcceptedEndpoint == ExpectedEndpoints[((client.accepted - 1) \div 3) + 1]
AcceptedEncoding == ExpectedEncodings[((client.accepted - 1) % 3) + 1]

\* C15 as stated: authenticate() tries the login candidates endpoint by
\* endpoint in the priority order (the override alone when one is
\* configured) and per endpoint JSON, form, Basic; it stops at the first
\* accepted (endpoint, encoding) pair and records that pair; it returns
\* false only after every pair was tried and rejected.
C15_WalksMatrixRecordsPair ==
    Walked =>
        /\ WalkedInOrder
        /\ client.accepted >= 1 =>
              /\ client.obj.auth_method = AcceptedEncoding
              /\ client.obj.auth_endpoint = AcceptedEndpoint

\* C15 amended: as above, but of the accepted pair the client records the
\* encoding only (in _auth_method); the endpoint is recorded nowhere.
C15_WalksMatrixRecordsEncoding ==
    Walked =>
        /\ WalkedInOrder
        /\ client.accepted >= 1 =>
              /\ client.obj.auth_method = AcceptedEncoding
              /\ client.obj.auth_endpoint = client.before.auth_endpoint

\* the JSON login of the second common endpoint was accepted after the
\* three encodings of the first were rejected
C15_Witness ==
    /\ Walked
    /\ client.before.auth_endpoint = ""
    /\ client.accepted = 4
    /\ Len(client.call.posts) = 4
    /\ client.call.posts[3].url = "https://svc.lan/api/v2/auth/login"
    /\ client.call.posts[3].method_type = "basic"
    /\ client.call.posts[4].url = "https://svc.lan/api/auth"
    /\ client.call.posts[4].method_type = "json"
    /\ client.obj.auth_method = "json"
    /\ client.obj.token = "t1"

\* the plain-text success marker, and the token of a JSON body
HasMarker(o) ==
    /\ \/ Contains(Lower(o.content_type), "text/plain")
       \/ Contains(Lower(o.content_type), "text/html")
    /\ Contains(Lower(o.text), "ok")
HasToken(o) == Json(o.text).kind = "dict" /\ TokenOf(Json(o.text)) # ""

\* C16: a login attempt is accepted only if its response has status 200 and
\* that same exchange yielded a plain-text success marker, a token in one
\* of the recognised JSON fields, or cookies; no other status, timeout or
\* connection error is accepted, and cookies left in the session by an
\* earlier rejected attempt do not make an attempt accepted.
C16_AcceptedOnItsOwnExchange ==
    (Authenticated /\ client.accepted >= 1) =>
        LET o == client.call.posts[client.accepted].outcome IN
        /\ o.kind = "response"
        /\ o.status = 200
        /\ HasMarker(o) \/ HasToken(o) \/ o.cookies # {}

\* the terminal outcome of the request was a response
TerminalResponse ==
    /\ RequestRan
    /\ Len(client.outcomes) >= 1
    /\ client.outcomes[Len(client.outcomes)].kind = "response"

\* C17: request() returns a normal result only when the status of the
\* terminal response is in 200-299; every other terminal status makes the
\* call raise a failure that carries the status code and the first 300
\* characters of the body.
C17_Non2xxRaises ==
    TerminalResponse =>
        LET o == client.outcomes[Len(client.outcomes)]
            shown == IF Len(o.text) < 300 THEN Len(o.text) ELSE 300
        IN IF 200 <= o.status /\ o.status <= 299
           THEN client.call.ret.kind = "return"
           ELSE client.call.ret =
                   RaisedException("HTTP error " \o ToString(o.status) \o ": "
                                   \o SubSeq(o.text, 1, shown))

\* the request ended because an authenticate() call returned false
AuthenticationFailed ==
    /\ RequestRan
    /\ Len(client.call.auths) >= 1
    /\ ~client.call.auths[Len(client.call.auths)]

\* what request() returns for the 2xx responses of the model
SuccessValues ==
    {Conclude(o, "") :
        o \in {x \in RequestOutcomes :
                  x.kind = "response" /\ 200 <= x.status /\ x.status <= 299}}

\* C18: when authentication fails, before the first transmission or after a
\* 401, the caller gets an explicit failure: request() does not return a
\* value that a successful response also produces, and the proxy does not
\* answer success = true.
C18_AuthenticationFailureIsExplicit ==
    AuthenticationFailed =>
        /\ client.call.ret \notin SuccessValues
        /\ client.op = "proxy" => ~client.reply.success

(***************************************************************************)
(* Claims about the secret store                                           *)
(***************************************************************************)
\* C19: secrets round-trip losslessly through the encrypted fields: for
\* every credential string, whatever its leading characters, and for null
\* and the empty string, the value read back after a save equals the value
\* that was assigned, for both field classes and after every further save
\* and reload.
C19_SecretsRoundTrip ==
    field.at = "loaded" => field.value = field.original

(***************************************************************************)
(* Claims about the discovery-free mode                                    *)
(***************************************************************************)
\* the Traefik API URL is unset, empty or the placeholder default
TraefikUnconfigured ==
    traefik.api_url \in {None, Some(""), Some("http://traefik:8080/api")}

\* the call asked Traefik and got no answer
TraefikSilent(c) ==
    /\ c.gets # <<>>
    /\ \A i \in 1..Len(c.answered) : ~c.answered[i]

\* C20: when the Traefik API URL is unset, empty or the placeholder
\* default, or the API does not respond, sync_traefik_services returns 0
\* and creates, modifies or deletes no service record, while
\* refresh_services still probes every stored service and reports success:
\* such a call never enters the sync loop and writes no row in its sync
\* phase; a direct call returns at once; a refresh loads every row of the
\* store, probes them in order, saves each with the time of its probe, and
\* answers 200 with success and the count of the rows.
C20_DiscoveryFreeMode ==
    \A k \in CallSlots :
       LET c == traefik.run[k] IN
       (c.op # "none" /\ (TraefikUnconfigured \/ TraefikSilent(c))) =>
          /\ c.ret = 0
          /\ c.wrote = <<>>
          /\ c.pc # "scanning"
          /\ c.op = "sync" =>
                /\ c.pc = "done"
                /\ traefik.last = k => StoredNow = c.before
          /\ c.op = "refresh" =>
                /\ c.rows = c.before
                /\ c.pos >= 1 =>
                      /\ Len(c.requests) >= 1
                      /\ c.requests[1].url = c.before[c.pos].url
                      /\ c.saved.url = c.before[c.pos].url
                      /\ c.saved.is_manual = c.before[c.pos].is_manual
                      /\ c.saved.last_checked = Some(c.at)
                      /\ traefik.last = k => \E i \in 1..Len(StoredNow) : StoredNow[i] = c.saved
                /\ c.pc = "probing" => c.pos < Len(c.before)
                /\ c.pc = "done" =>
                      /\ c.reply.success
                      /\ c.reply.status = 200
                      /\ c.reply.synced_services = 0
                      /\ c.reply.health_checks = Len(c.before)
                      /\ c.pos = Len(c.before)

\* a refresh while the configured Traefik does not answer has returned: the
\* one request to it failed, both stored rows were probed, a minute apart,
\* and found down
C20_Witness ==
    \E k \in CallSlots :
       LET c == traefik.run[k] IN
       /\ c.op = "refresh" /\ c.pc = "done"
       /\ traefik.api_url = Some("http://traefik.lan:8080/api/")
       /\ c.gets = <<"http://traefik.lan:8080/api/version">>
       /\ c.answered = <<FALSE>>
       /\ c.reply.traefik_configured /\ ~c.reply.traefik_available
       /\ c.reply.success /\ c.reply.health_checks = 2
       /\ c.before[1].status = "up"
       /\ present /\ svc.status = "down" /\ svc.last_checked = Some(0)
       /\ c.at = 1 /\ c.saved = traefik.manual
       /\ traefik.manual.last_checked = Some(1)

(***************************************************************************)
(* Claims about the retries of the prober                                  *)
(***************************************************************************)
\* the primary GET of the last probe raised a TLS/certificate error
TlsPath == probe.called /\ ProbeFirst.kind = "SSLError"

\* C21: when the primary GET raises a TLS/certificate error the probe
\* issues exactly one more GET, to the same URL with certificate
\* verification disabled, and classifies its status with the classifier of
\* the primary request; if the retry raises any error the verdict is down
\* with response_time null; the stored URL is not rewritten on this path.
C21_TlsRetryOnceSameUrl ==
    TlsPath =>
        /\ probe.requests = <<Get(probe.start_url, TRUE), Get(probe.start_url, FALSE)>>
        /\ Len(probe.outcomes) = 2
        /\ ProbeLast.kind = "response" =>
              /\ probe.saved.status = IF is_service_up(ProbeLast.status) THEN "up" ELSE "down"
              /\ probe.saved.response_time # None
        /\ ProbeLast.kind # "response" =>
              /\ probe.saved.status = "down"
              /\ probe.saved.response_time = None
        /\ probe.saved.url = probe.start_url
        /\ probe.ret = probe.saved.status

\* a certificate error on an https URL, then 401 from the unverified retry:
\* the target is up at its https URL
C21_Witness ==
    /\ TlsPath
    /\ probe.start_url = "https://svc.lan"
    /\ probe.requests = <<Get("https://svc.lan", TRUE), Get("https://svc.lan", FALSE)>>
    /\ ProbeLast = Response(401)
    /\ probe.saved.status = "up" /\ probe.saved.url = "https://svc.lan"
    /\ probe.saved.response_time = Some(120)

\* C22: when the TLS-relaxed retry raises a connection-level error and the
\* URL scheme is https, the probe goes on to a third GET over the
\* plaintext scheme, as it does when the primary request raises a
\* connection-level error.
C22_TlsRetryFallsBackToPlaintext ==
    (/\ TlsPath
     /\ Len(probe.outcomes) = 2
     /\ Handler(ProbeLast.kind) = "ConnectionError"
     /\ StartsWith(probe.start_url, "https://")) =>
        /\ Len(probe.requests) = 3
        /\ probe.requests[3] =
              Get(ReplaceFirst(probe.start_url, "https://", "http://"), FALSE)

(***************************************************************************)
(* Claims about documentation candidates                                   *)
(***************************************************************************)
DeclaresHtml(ct) == ct \in {"text/html", "text/html; charset=utf-8"}

\* C23: a documentation candidate (/docs, /swagger, /api-docs) whose
\* response declares an HTML content type is accepted only when the
\* response status is 200; an HTML response with status 403 at such a path
\* is not accepted.  (A 401 is accepted at every path whatever its content
\* type, so the statement is about the statuses other than 401.)
C23_HtmlDocumentationNeeds200 ==
    (/\ scan.done
     /\ scan.result.found
     /\ COMMON_ENDPOINTS[ScanSent] \in {"/docs", "/swagger", "/api-docs"}
     /\ scan.env[ScanSent].kind = "response"
     /\ DeclaresHtml(scan.env[ScanSent].content_type)
     /\ scan.env[ScanSent].status # 401) =>
        scan.env[ScanSent].status = 200

(***************************************************************************)
(* Claims about the eligibility decision and the throttle state            *)
(***************************************************************************)
\* the age in minutes of the last successful detection of the stored row
DetectionAge == clock - svc.api_last_detected[1]

SevenDays == 7 * 1440

\* C24 as stated: for a non-forced decision, detection is due whenever the
\* target's detection_attempts is below 5, whether or not an API has
\* already been detected for that target.
C24_DueBelowFiveAttempts ==
    svc.api_detection_attempts < 5 => ShouldDetect(present, svc, FALSE, clock)

\* C24 amended: for a non-forced decision on a target with
\* detection_attempts below 5, detection is due when the target is new or
\* no API is detected for it, and it is not due when an API is detected and
\* the last detection is less than 7 days old.
C24_DueBelowFiveAttemptsUndetected ==
    svc.api_detection_attempts < 5 =>
        /\ (~present \/ ~svc.api_detected) => ShouldDetect(present, svc, FALSE, clock)
        /\ (/\ present /\ svc.api_detected
            /\ svc.api_last_detected # None /\ DetectionAge < SevenDays) =>
               ~ShouldDetect(present, svc, FALSE, clock)

\* a non-forced cycle at minute 5 skipped detection for a target whose API
\* was detected at minute 1 and whose counter is 0 (the skipping cycle
\* stores api_detected = false with its defaults)
C24_Witness ==
    /\ present /\ ~svc.api_detected
    /\ svc.api_detection_attempts = 0
    /\ svc.api_username = ""
    /\ svc.api_last_detected = Some(1) /\ clock = 5
    /\ ~sync.force /\ ~sync.should_detect /\ sync.outcome = "skipped"
    /\ svc.last_checked = Some(5)

\* C25: for a non-forced decision, detection is due whenever the last
\* successful detection is more than 7 days old (for example 7 days and 1
\* hour), regardless of detection_attempts and of next_check lying in the
\* future.
C25_DueAfterSevenDays ==
    (/\ present
     /\ svc.api_detected
     /\ svc.api_last_detected # None
     /\ DetectionAge > SevenDays) =>
        ShouldDetect(present, svc, FALSE, clock)

\* the last operation was a sync cycle whose detection failed or errored
SyncFailed == sync.outcome \in {"notfound", "raised"}

\* C26: in every state reachable through sync cycles next_check is non-null
\* only if detection_attempts >= 5, and after each failed or errored
\* attempt that leaves detection_attempts >= 5 next_check equals the time
\* of that attempt plus 5 minutes.  (The row the cycle stored carries the
\* time of the attempt in last_checked.)
C26_NextCheckOnlyWhenThrottled ==
    /\ svc.api_next_check # None => svc.api_detection_attempts >= 5
    /\ (SyncFailed /\ sync.stored.api_detection_attempts >= 5) =>
          /\ sync.stored.last_checked = Some(sync.now)
          /\ sync.stored.api_next_check = Some(sync.now + 5)

\* the sixth failure in a row, at minute 5: next_check is minute 10
C26_Witness ==
    /\ SyncFailed
    /\ sync.stored.api_detection_attempts = 6
    /\ sync.stored.last_checked = Some(5)
    /\ sync.stored.api_next_check = Some(10)
    /\ svc = sync.stored
    /\ clock = 5

\* C27: in a sync cycle a target is marked api_detected = true without any
\* scanner request exactly when it carries both a username and a password;
\* the short-circuit takes precedence over the eligibility decision, so it
\* also applies when detection is forced or throttled.
C27_ShortCircuitOnUsernameAndPassword ==
    SyncRan =>
        ((sync.outcome = "manual" /\ sync.stored.api_detected) <=>
            (/\ sync.existing
             /\ sync.read.api_username # ""
             /\ sync.read.api_password # ""))

\* the outcomes of an operation that ran the endpoint scanner
ScannerRan == {"found", "notfound", "raised"}

\* C28: the API endpoint scanner is run for a target only when the target's
\* liveness is favourable (status up): a target whose latest verdict is
\* down or unknown is scanned neither by a sync cycle nor by the detect-api
\* endpoint.  (A cycle stores the status Traefik reports for the target;
\* the detect-api endpoint leaves the stored status as it is.)
C28_ScannerNeedsFavourableLiveness ==
    /\ sync.outcome \in ScannerRan => sync.stored.status = "up"
    /\ detect.outcome \in ScannerRan => detect.loaded.status = "up"


(***************************************************************************)
(* Claims about check_health running concurrently                          *)
(***************************************************************************)
\* C29: at most one probe of the target is outstanding at any time: no
\* caller starts check_health on the target while an earlier call on the
\* same target has not finished
C29_OneProbeOutstanding == Cardinality(Outstanding) <= 1

\* the columns the other operations own: credentials, API detection state,
\* attempt counter, next check
GuardedColumns ==
    {"api_username", "api_password", "api_key", "api_detected", "api_type",
     "api_endpoint", "api_url", "api_last_detected", "api_detection_attempts",
     "api_next_check"}

\* C30: the save of a health probe leaves the credentials, the API
\* detection state, the attempt counter and next_check as the stored record
\* had them just before the save, whatever was written after the probe read
\* the record
C30_ProbeSaveKeepsNewerColumns ==
    race.last = "save" => \A f \in GuardedColumns : svc[f] = race.before[f]


\* a write of the status column: the save of a health probe or the
\* update_or_create of a sync cycle; both store last_checked = now
StatusWritten == race.last \in {"save", "sync"}

\* C31: in every interleaving of health probes and sync cycles a write that
\* changes the stored status stamps status_changed_at with the time of the
\* write, and a write that leaves the stored status as it was leaves
\* status_changed_at as it was
C31_StampFollowsStoredStatus ==
    StatusWritten =>
        IF svc.status # race.before.status
        THEN svc.status_changed_at = svc.last_checked
        ELSE svc.status_changed_at = race.before.status_changed_at


(***************************************************************************)
(* Claims about exceptions inside the loops                                *)
(***************************************************************************)
\* the targets a loop has gone through
Reached(r) == {Targets[i] : i \in 1..r.pos}

AllTargets == {Targets[i] : i \in 1..Len(Targets)}

\* the calls of sync_traefik_services the thread of periodic_sync has made
\* and come back from
PeriodicCalls ==
    {k \in LoopSlots : cycle.runs[k].via = "periodic_sync" /\ ~cycle.runs[k].running}

\* C32: an exception raised while one target is probed or synced does not
\* stop the cycle: every loop of a cycle (check_all_services_health, the
\* health loop of refresh_services, the loop of sync_traefik_services),
\* whatever other loops run at the same time, has handled each target it
\* went through, done or failed, and when it is over it has gone through
\* every target; the thread of periodic_sync survives every exception and
\* counts a tick for every call it came back from
C32_ExceptionNeverStopsCycle ==
    /\ cycle.alive
    /\ \A k \in LoopSlots :
          LET r == cycle.runs[k] IN
          r.loop \in Loops =>
             /\ r.done \cup r.failed = Reached(r)
             /\ r.done \cap r.failed = {}
             /\ (~r.running /\ ~r.aborted) => Reached(r) = AllTargets
    /\ cycle.ticks = Cardinality(PeriodicCalls)

\* a sync cycle of periodic_sync in which the first target raised is over,
\* the later targets were synced, after an earlier call that raised before
\* its loop
C32_Witness ==
    /\ cycle.runs[1].via = "periodic_sync" /\ cycle.runs[1].aborted
    /\ cycle.runs[2].via = "periodic_sync" /\ ~cycle.runs[2].running
    /\ Targets[1] \in cycle.runs[2].failed
    /\ {Targets[2], Targets[3]} \subseteq cycle.runs[2].done
    /\ cycle.ticks = 2


(***************************************************************************)
(* Claims about the stored URL and the stored detection state              *)
(***************************************************************************)
\* C33: a stored URL that a probe has rewritten to the plaintext scheme is
\* left as it is by every later probe and every later sync cycle.  The
\* statement is about the rows made from a router: their URL starts with
\* https, an operator cannot edit it (update_service answers 403), so only
\* a probe's rewrite stores a plaintext URL there.
C33_PlaintextUrlStays ==
    [][(present /\ ~svc.is_manual /\ StartsWith(svc.url, "http://")) =>
           svc'.url = svc.url]_vars


(***************************************************************************)
(* Claims about the lazy authentication and the failures of request()      *)
(***************************************************************************)
\* an earlier authenticate() on the object the request was made on returned
\* true: _auth_method is assigned on success only
HadAuthenticated == client.before.auth_method # ""

\* the authenticate() calls request() makes after a 401: one
ReauthCount ==
    IF Len(client.outcomes) >= 1 /\ Is401(client.outcomes[1]) THEN 1 ELSE 0

\* request() called authenticate() before its first transmission
AuthenticateRanFirst == Len(client.call.auths) > ReauthCount

\* C34: request() runs authenticate() before sending if and only if no
\* earlier authenticate() on the client succeeded: after a success the call
\* sends directly, after a failure (or on a new client) it authenticates
\* first
C34_AuthenticatesFirstIffNotYetAuthenticated ==
    client.op = "request" => (AuthenticateRanFirst <=> ~HadAuthenticated)


\* the exception that ended the transmissions of the request, "" if none
TerminalException ==
    IF RequestRan /\ Len(client.outcomes) >= 1
       /\ client.outcomes[Len(client.outcomes)].kind # "response"
    THEN client.outcomes[Len(client.outcomes)].kind
    ELSE ""

\* C35: a timeout, a connection failure and a TLS failure during request()
\* reach the caller as three different failures: the message of the raised
\* exception names a timeout for a timeout, a certificate error for an
\* SSLError and a connection error for the other connection failures
C35_TransportFailuresAreDistinct ==
    /\ TerminalException \in {"ReadTimeout", "ConnectTimeout"} =>
          StartsWith(client.call.ret.text, "Request timeout")
    /\ TerminalException = "ConnectionError" =>
          StartsWith(client.call.ret.text, "Connection error")
    /\ TerminalException = "SSLError" =>
          StartsWith(client.call.ret.text, "SSL certificate error")


\* C36: a sync cycle that skips detection for an existing target (detected
\* within 7 days, or throttled) leaves api_detected, api_type, api_endpoint
\* and api_last_detected of the target as they were
C36_SkippedCycleKeepsDetection ==
    (sync.outcome = "skipped" /\ sync.existing) =>
        /\ sync.stored.api_detected = sync.before.api_detected
        /\ sync.stored.api_type = sync.before.api_type
        /\ sync.stored.api_endpoint = sync.before.api_endpoint
        /\ sync.stored.api_last_detected = sync.before.api_last_detected


\* C37: api_last_detected is written only by a detection that succeeded (a
\* scan that found an API, or the short-circuit for stored credentials): a
\* failed detection, in a sync cycle or on demand, leaves it unchanged
C37_LastDetectedOnlyOnSuccess ==
    [][svc'.api_last_detected # svc.api_last_detected =>
          \/ sync'.outcome \in {"found", "manual"}
          \/ detect'.outcome = "found"]_vars


\* C38: the stored status of an existing target changes only when a health
\* probe of the target saves its verdict; a sync cycle leaves it as the
\* latest probe recorded it
C38_StatusChangesOnlyByProbe ==
    [][(present /\ svc'.status # svc.status) => race'.last = "save"]_vars


(***************************************************************************)
(* Claims about the spacing of the scanner runs                            *)
(***************************************************************************)
\* a non-forced sync cycle ends here, its scanner has run without finding
\* an API, and the stored row of the target had reached 5 attempts
ThrottledScanFails ==
    /\ \E t \in Threads :
          race.threads[t].pc = "syncing" /\ race'.threads[t].pc = "idle"
    /\ RouterRow
    /\ svc.api_detection_attempts >= ThrottleAttempts
    /\ sync'.outcome \in {"notfound", "raised"}
    /\ ~sync'.force

\* the scan comes at least 5 minutes after the failed scan before it, the
\* one that set the stored next_check
FiveMinutesApart ==
    svc.api_next_check # None /\ clock >= svc.api_next_check[1]

\* C39: once the target has reached 5 attempts, a failing scanner run of a
\* non-forced sync cycle comes at least 5 minutes after the scanner run
\* before it
C39_ThrottledScansFiveMinutesApart ==
    [][ThrottledScanFails => FiveMinutesApart]_vars


(***************************************************************************)
(* Claims about the number of requests of one operation                    *)
(***************************************************************************)
\* the login POSTs of the last call that went to the URL u
PostsTo(u) == {i \in 1..Len(client.call.posts) : client.call.posts[i].url = u}

\* C40: every operation sends a bounded number of requests, each with a
\* timeout: a health probe at most 2 GETs; a scan at most one GET per
\* candidate path; authenticate() at most 3 login POSTs to each candidate
\* endpoint; one request() at most 2 transmissions of the caller's request
\* and at most 2 runs of authenticate()
C40_BoundedRequestsWithTimeouts ==
    /\ probe.called =>
          /\ Len(probe.requests) <= 2
          /\ \A i \in 1..Len(probe.requests) : probe.requests[i].timeout > 0
    /\ scan.done =>
          /\ ScanSent <= Len(COMMON_ENDPOINTS)
          /\ \A i \in 1..ScanSent : \A j \in 1..ScanSent :
                scan.result.requests[i].url = scan.result.requests[j].url => i = j
          /\ \A i \in 1..ScanSent : scan.result.requests[i].timeout > 0
    /\ client.op = "authenticate" =>
          /\ \A i \in 1..Len(client.call.posts) :
                /\ Cardinality(PostsTo(client.call.posts[i].url)) <= Len(auth_methods)
                /\ client.call.posts[i].timeout > 0
          /\ Len(client.call.auths) = 1
    /\ RequestRan =>
          /\ Len(client.call.sends) <= 2
          /\ Len(client.call.auths) <= 2
          /\ \A i \in 1..Len(client.call.sends) : client.call.sends[i].timeout > 0
          /\ \A i \in 1..Len(client.call.posts) :
                /\ Cardinality(PostsTo(client.call.posts[i].url))
                      <= Len(auth_methods) * Len(client.call.auths)
                /\ client.call.posts[i].timeout > 0

\* authenticate() has walked the whole matrix: three POSTs to each of the
\* eight common endpoints, all rejected
C40_Witness ==
    /\ client.op = "authenticate"
    /\ Len(client.call.posts) = Len(auth_methods) * Len(common_endpoints)
    /\ client.call.auths = <<FALSE>>
    /\ Cardinality(PostsTo("https://svc.lan/auth")) = Len(auth_methods)

====
